---- MODULE Spec2Model ----
(***************************************************************************)
(* Order lifecycle of the tailoring system: OrderService.create_order and  *)
(* OrderService.transition_status (orders/services.py) with the billing,   *)
(* payment, audit and notification code they call.  Every service method   *)
(* is an operator from a database snapshot to a result record; the action  *)
(* of a method commits the snapshot its transaction.atomic block leaves.   *)
(***************************************************************************)
EXTENDS Integers, Sequences, FiniteSets, Bags, TLC

VARIABLES
    statuses,            \* orders_order_status rows: status_name -> row
    transitions,         \* orders_order_status_transition rows
    notification_types,  \* notifications_notification_type rows (type_name)
    orders,              \* orders_order rows: id -> row
    order_work_types,    \* orders_order_work_type rows
    bills,               \* billing_order_bill rows: order id -> row
    invoices,            \* billing_invoice rows: order id -> row
    razorpay_orders,     \* payments_razorpay_order rows: id -> row
    payments,            \* payments_payment rows: id -> row
    refunds,             \* payments_refund rows: id -> row
    history,             \* orders_order_status_history rows, per order, in insertion order
    assignments,         \* orders_order_assignment rows (a bag)
    allocations,         \* orders_order_material_allocation rows: id -> row
    fabrics,             \* inventory_fabric rows: name -> row
    stock_transactions,  \* inventory_stock_transaction rows, per fabric, in insertion order
    low_stock_alerts,    \* inventory_low_stock_alert rows: id -> row
    webhook_events,      \* payments_webhook_event rows: id -> row
    requests,            \* the requests in progress: what each has read, where it stands
    audit,               \* audit_activity_log rows (a bag of rows)
    notifications,       \* notifications_notification rows (a bag of rows)
    last                 \* what the most recent service call returned or raised

vars == << statuses, transitions, notification_types, orders, order_work_types,
           bills, invoices, razorpay_orders, payments, refunds, history,
           assignments, allocations, fabrics, stock_transactions, low_stock_alerts,
           webhook_events, requests, audit, notifications, last >>

(***************************************************************************)
(* Bounds of the model.                                                    *)
(***************************************************************************)
MaxRows == 6          \* rows inserted in all tables that grow
MaxOrders == 2        \* orders among them
BillTotal == 2        \* total_amount of every bill, in abstract currency units
MaxStockRows == 3     \* rows of the stock ledger, over all fabrics
MaxTransitions == 8   \* transitions of one order in the walk through its lifecycle

(***************************************************************************)
(* Reference data.                                                         *)
(***************************************************************************)
\* seed_data._seed_order_statuses
SeedStatuses ==
    [ booked           |-> [display_label |-> "Booked",           sequence_order |-> 1, is_final_state |-> FALSE],
      fabric_allocated |-> [display_label |-> "Fabric Allocated", sequence_order |-> 2, is_final_state |-> FALSE],
      stitching        |-> [display_label |-> "Stitching",        sequence_order |-> 3, is_final_state |-> FALSE],
      trial_scheduled  |-> [display_label |-> "Trial Scheduled",  sequence_order |-> 4, is_final_state |-> FALSE],
      alteration       |-> [display_label |-> "Alteration",       sequence_order |-> 5, is_final_state |-> FALSE],
      ready            |-> [display_label |-> "Ready",            sequence_order |-> 6, is_final_state |-> FALSE],
      delivered        |-> [display_label |-> "Delivered",        sequence_order |-> 7, is_final_state |-> TRUE],
      closed           |-> [display_label |-> "Closed",           sequence_order |-> 8, is_final_state |-> TRUE] ]

Edge(f, t, r) == [from_status |-> f, to_status |-> t, allowed_roles |-> r]

\* a faulty variant of SeedTransitions: an order that is ready can go back to alteration
SeedTransitionsWithRework ==
    { Edge("booked", "fabric_allocated", "staff,admin"),
      Edge("fabric_allocated", "stitching", "tailor,staff,admin"),
      Edge("stitching", "trial_scheduled", "staff,admin"),
      Edge("stitching", "ready", "staff,admin"),
      Edge("trial_scheduled", "alteration", "staff,admin"),
      Edge("trial_scheduled", "ready", "staff,admin"),
      Edge("alteration", "ready", "tailor,staff,admin"),
      Edge("ready", "alteration", "staff,admin"),
      Edge("ready", "delivered", "delivery,staff,admin"),
      Edge("delivered", "closed", "staff,admin") }

\* seed_data._seed_order_transitions
SeedTransitions ==
    { Edge("booked", "fabric_allocated", "staff,admin"),
      Edge("fabric_allocated", "stitching", "tailor,staff,admin"),
      Edge("stitching", "trial_scheduled", "staff,admin"),
      Edge("stitching", "ready", "staff,admin"),
      Edge("trial_scheduled", "alteration", "staff,admin"),
      Edge("trial_scheduled", "ready", "staff,admin"),
      Edge("alteration", "ready", "tailor,staff,admin"),
      Edge("ready", "delivered", "delivery,staff,admin"),
      Edge("delivered", "closed", "staff,admin") }

\* seed_data._seed_notification_types (the types the order workflow uses)
SeedNotificationTypes == {"order_confirmation", "order_status_update", "order_ready"}

\* OrderServiceTests.setUpTestData: the statuses of the test database
TestStatuses ==
    [ booked      |-> [display_label |-> "Booked",      sequence_order |-> 1, is_final_state |-> FALSE],
      in_progress |-> [display_label |-> "In Progress", sequence_order |-> 2, is_final_state |-> FALSE],
      ready       |-> [display_label |-> "Ready",       sequence_order |-> 3, is_final_state |-> FALSE],
      delivered   |-> [display_label |-> "Delivered",   sequence_order |-> 4, is_final_state |-> TRUE],
      cancelled   |-> [display_label |-> "Cancelled",   sequence_order |-> 5, is_final_state |-> TRUE] ]

\* OrderServiceTests.setUpTestData: the edges of the test database (allowed_roles left NULL)
TestTransitions ==
    { Edge("booked", "in_progress", ""),
      Edge("in_progress", "ready", ""),
      Edge("ready", "delivered", ""),
      Edge("booked", "cancelled", "") }

StatusNames == DOMAIN statuses

(***************************************************************************)
(* Users and roles (users/models.py).  Each account stands for one way the *)
(* role gate can see a user.                                               *)
(***************************************************************************)
RoleNames == {"admin", "staff", "customer", "tailor", "delivery", "designer"}

UserTable ==
    [ root            |-> [is_superuser |-> TRUE,  roles |-> {}],
      admin           |-> [is_superuser |-> FALSE, roles |-> {"admin"}],
      staff           |-> [is_superuser |-> FALSE, roles |-> {"staff"}],
      tailor          |-> [is_superuser |-> FALSE, roles |-> {"tailor"}],
      designer        |-> [is_superuser |-> FALSE, roles |-> {"designer"}],
      delivery        |-> [is_superuser |-> FALSE, roles |-> {"delivery"}],
      tailor_delivery |-> [is_superuser |-> FALSE, roles |-> {"tailor", "delivery"}],
      plain           |-> [is_superuser |-> FALSE, roles |-> {}] ]

Users == DOMAIN UserTable

\* UserManager.create_user: a user without any role, not a superuser
create_user == "plain"

\* User.get_roles
get_roles(u) == UserTable[u].roles

\* the user behind every CustomerProfile of the model
CustomerUser == "customer"

\* the fields a CustomerProfile instance has
CustomerProfileFields ==
    { "user", "phone_number", "address_line_1", "address_line_2", "city",
      "postal_code", "state", "country", "allow_contact",
      "allow_order_history_sharing", "allow_recommendation", "is_deleted",
      "created_at", "updated_at" }

Reasons == {"", "customer request"}

\* an e-mail that never gets out fails every attempt of EmailService.send_email
MAX_RETRIES == 3

(***************************************************************************)
(* The database as one value, and the result of a service call.            *)
(***************************************************************************)
DB ==
    [ notification_types |-> notification_types, orders |-> orders,
      order_work_types |-> order_work_types, bills |-> bills,
      invoices |-> invoices, razorpay_orders |-> razorpay_orders,
      payments |-> payments, refunds |-> refunds, history |-> history,
      assignments |-> assignments, allocations |-> allocations, fabrics |-> fabrics,
      stock_transactions |-> stock_transactions, low_stock_alerts |-> low_stock_alerts,
      webhook_events |-> webhook_events,
      audit |-> audit, notifications |-> notifications ]

\* a call that returned, leaving the database db
Returned(db) == [db |-> db, raised |-> FALSE, exc |-> "", msg |-> << >>]

\* a call that raised exc(msg), leaving the database db
Raised(db, exc, msg) == [db |-> db, raised |-> TRUE, exc |-> exc, msg |-> msg]

\* a faulty variant of atomic: a block that is not transactional keeps its writes when it raises
atomic_no_rollback(before, after, raised) == after

\* @transaction.atomic: the writes of the block are committed when it returns
\* and rolled back when an exception leaves it
atomic(before, after, raised) == IF raised THEN before ELSE after

NextId(table) == Cardinality(DOMAIN table) + 1

(***************************************************************************)
(* audit/services.py                                                       *)
(***************************************************************************)
\* AuditService.log_activity: one ActivityLog row
log_activity(db, entity_type, entity_id, action_type, performed_by, changes, description) ==
    [db EXCEPT !.audit = @ (+) SetToBag({
        [ entity_type |-> entity_type, entity_id |-> entity_id,
          action_type |-> action_type, performed_by |-> performed_by,
          changes |-> changes, action_description |-> description ] })]

\* AuditService.log_order_status_change
log_order_status_change(db, o, from_status, to_status, changed_by, reason) ==
    log_activity(db, "order", o, "STATUS_CHANGE", changed_by,
                 <<from_status, to_status>>,
                 IF reason # "" THEN <<reason>>
                 ELSE <<"Status changed from", from_status, "to", to_status>>)

\* AuditService.log_payment
log_payment(db, p, action_type, performed_by, description) ==
    log_activity(db, "payment", p, action_type, performed_by,
                 <<ToString(db.payments[p].amount_paid), db.payments[p].status>>,
                 <<description, ToString(db.payments[p].amount_paid)>>)

(***************************************************************************)
(* notifications/email_service.py, notifications/services.py               *)
(***************************************************************************)
\* EmailService.send_email: up to MAX_RETRIES attempts, True at the first one
\* that succeeds, False when all fail; attempt_ok[i] is what attempt i meets
send_email(attempt_ok) == \E i \in 1..MAX_RETRIES : attempt_ok[i]

\* what the mail server does to the attempts of one send under a fault
MailAttempts(fault) == [i \in 1..MAX_RETRIES |-> fault # "email"]

\* NotificationService.send_notification with _send_email_notification:
\* get or create the type, insert the row QUEUED, send, store SENT or FAILED
send_notification(db, recipient, type_name, o, fault) ==
    LET db1 == [db EXCEPT !.notification_types = @ \cup {type_name}]
        success == send_email(MailAttempts(fault))
        row == [ notification_type |-> type_name, recipient |-> recipient,
                 channel |-> "email", order |-> o,
                 status |-> IF success THEN "SENT" ELSE "FAILED" ]
        db2 == [db1 EXCEPT !.notifications = @ (+) SetToBag({row})]
    IN  IF fault = "notification"
        THEN Raised(atomic(db, db1, TRUE), "DatabaseError", <<"notifications_notification">>)
        ELSE Returned(atomic(db, db2, FALSE))

\* NotificationService.notify_order_created
notify_order_created(db, o, fault) ==
    send_notification(db, CustomerUser, "order_confirmation", o, fault)

\* NotificationService.notify_order_status_change
notify_order_status_change(db, o, old_status, new_status, fault) ==
    IF new_status = "ready"
    THEN send_notification(db, CustomerUser, "order_ready", o, fault)
    ELSE send_notification(db, CustomerUser, "order_status_update", o, fault)

(***************************************************************************)
(* OrderService.transition_status (orders/services.py)                     *)
(***************************************************************************)
NoError == [raised |-> FALSE, exc |-> "", text |-> ""]

\* raise InvalidTransitionError('Cannot transition from "X" to "Y"')
invalid_transition_error ==
    [raised |-> TRUE, exc |-> "InvalidTransitionError", text |-> "Cannot transition from"]

\* a faulty variant of role_not_allowed_error: the role gate raises an exception class of its own
role_not_allowed_permission_denied ==
    [raised |-> TRUE, exc |-> "PermissionDenied",
     text |-> "Your role does not allow changing status from"]

\* raise InvalidTransitionError('Your role does not allow changing status from "X" to "Y"')
role_not_allowed_error ==
    [raised |-> TRUE, exc |-> "InvalidTransitionError",
     text |-> "Your role does not allow changing status from"]

\* raise InvalidTransitionError('Cannot mark as delivered: Order has no completed payment. ...')
no_payment_error ==
    [raised |-> TRUE, exc |-> "InvalidTransitionError",
     text |-> "Cannot mark as delivered: Order has no completed payment"]

\* OrderStatusTransition.objects.filter(from_status=, to_status=).exists() on
\* the rows edges of the transition table
transition_valid_in(edges, from_status, to_status) ==
    \E t \in edges : t.from_status = from_status /\ t.to_status = to_status

\* the same on the stored table
transition_valid(from_status, to_status) ==
    transition_valid_in(transitions, from_status, to_status)

tailor_allowed ==
    { <<"fabric_allocated", "stitching">>, <<"stitching", "trial_scheduled">>,
      <<"stitching", "ready">>, <<"trial_scheduled", "ready">>,
      <<"alteration", "ready">> }

\* a faulty variant of role_allowed: the staff role gets no blanket access
role_allowed_without_staff(user_roles, from_name, to_name) ==
    \/ "tailor" \in user_roles /\ <<from_name, to_name>> \in tailor_allowed
    \/ "designer" \in user_roles /\ <<from_name, to_name>> = <<"booked", "fabric_allocated">>
    \/ "delivery" \in user_roles /\ <<from_name, to_name>> = <<"ready", "delivered">>

\* the allow-list of the roles that are neither admin nor superuser
role_allowed(user_roles, from_name, to_name) ==
    \/ "tailor" \in user_roles /\ <<from_name, to_name>> \in tailor_allowed
    \/ "designer" \in user_roles /\ <<from_name, to_name>> = <<"booked", "fabric_allocated">>
    \/ "delivery" \in user_roles /\ <<from_name, to_name>> = <<"ready", "delivered">>
    \/ "staff" \in user_roles

\* the role gate: admin and superuser pass, the others go through the allow-list
role_gate(changed_by, from_name, to_name) ==
    LET user_roles == get_roles(changed_by)
    IN  IF "admin" \notin user_roles /\ ~UserTable[changed_by].is_superuser
        THEN role_allowed(user_roles, from_name, to_name)
        ELSE TRUE

\* a faulty variant of has_payment: the filter on the order is forgotten
has_payment_of_any_order(db, o) ==
    \E p \in DOMAIN db.payments : db.payments[p].status = "COMPLETED"

\* Payment.objects.filter(invoice__bill__order=order, status='COMPLETED').exists()
has_payment(db, o) ==
    \E p \in DOMAIN db.payments :
        /\ db.payments[p].invoice = o
        /\ o \in DOMAIN db.invoices /\ o \in DOMAIN db.bills
        /\ db.payments[p].status = "COMPLETED"

\* the roles an allowed_roles annotation names
RolesOf(allowed_roles) ==
    { r \in RoleNames :
        \/ r = "admin" /\ allowed_roles # ""
        \/ r = "staff" /\ allowed_roles \in {"staff,admin", "tailor,staff,admin",
                                              "delivery,staff,admin"}
        \/ r = "tailor" /\ allowed_roles = "tailor,staff,admin"
        \/ r = "delivery" /\ allowed_roles = "delivery,staff,admin" }

\* a faulty variant of check_transition_in: the role gate reads the annotation of the edge
check_transition_by_annotation(edges, db, o, new_status, changed_by) ==
    LET old_status == db.orders[o].current_status
        annotated == \E t \in edges :
                        /\ t.from_status = old_status /\ t.to_status = new_status
                        /\ (RolesOf(t.allowed_roles) \cap get_roles(changed_by) # {}
                             \/ UserTable[changed_by].is_superuser)
    IN  IF ~transition_valid_in(edges, old_status, new_status) THEN invalid_transition_error
        ELSE IF ~annotated THEN role_not_allowed_error
        ELSE IF new_status = "delivered" /\ ~has_payment(db, o) THEN no_payment_error
        ELSE NoError

\* the three checks of transition_status, in the order the code makes them,
\* on the rows edges of the transition table
check_transition_in(edges, db, o, new_status, changed_by) ==
    LET old_status == db.orders[o].current_status
    IN  IF ~transition_valid_in(edges, old_status, new_status) THEN invalid_transition_error
        ELSE IF ~role_gate(changed_by, old_status, new_status) THEN role_not_allowed_error
        ELSE IF new_status = "delivered" /\ ~has_payment(db, o) THEN no_payment_error
        ELSE NoError

\* the same on the stored table
check_transition(db, o, new_status, changed_by) ==
    check_transition_in(transitions, db, o, new_status, changed_by)

\* a faulty variant of status_history_row: from_status is read from the order after it was saved
status_history_row_after_save(o, old_status, new_status, changed_by, reason) ==
    [ order |-> o, from_status |-> new_status, to_status |-> new_status,
      changed_by |-> changed_by, change_reason |-> reason ]

\* the OrderStatusHistory row of one transition
status_history_row(o, old_status, new_status, changed_by, reason) ==
    [ order |-> o, from_status |-> old_status, to_status |-> new_status,
      changed_by |-> changed_by, change_reason |-> reason ]

\* a faulty variant of transition_status: the status is saved before the checks and the
\* block is not rolled back when a check raises
transition_status_save_first(db, o, new_status, changed_by, reason, fault) ==
    LET old_status == db.orders[o].current_status
        rejection == check_transition(db, o, new_status, changed_by)
        db1 == [db EXCEPT !.orders[o].current_status = new_status]
        db2 == [db1 EXCEPT !.history[o] =
                    Append(@, status_history_row(o, old_status, new_status, changed_by, reason))]
        db3 == log_order_status_change(db2, o, statuses[old_status].display_label,
                                       statuses[new_status].display_label, changed_by, reason)
        sent == notify_order_status_change(db3, o, old_status, new_status, fault)
    IN  IF rejection.raised
        THEN Raised(db1, rejection.exc,
                    <<rejection.text, statuses[old_status].display_label,
                      statuses[new_status].display_label>>)
        ELSE Returned(sent.db)

\* OrderService.transition_status
transition_status(db, o, new_status, changed_by, reason, fault) ==
    LET old_status == db.orders[o].current_status
        rejection == check_transition(db, o, new_status, changed_by)
        db1 == [db EXCEPT !.orders[o].current_status = new_status]
        db2 == [db1 EXCEPT !.history[o] =
                    Append(@, status_history_row(o, old_status, new_status, changed_by, reason))]
        db3 == log_order_status_change(db2, o, statuses[old_status].display_label,
                                       statuses[new_status].display_label, changed_by, reason)
        sent == notify_order_status_change(db3, o, old_status, new_status, fault)
    IN  IF rejection.raised
        THEN Raised(atomic(db, db, TRUE), rejection.exc,
                    <<rejection.text, statuses[old_status].display_label,
                      statuses[new_status].display_label>>)
        ELSE IF fault = "history"
        THEN Raised(atomic(db, db1, TRUE), "DatabaseError", <<"orders_order_status_history">>)
        ELSE IF fault = "audit"
        THEN Raised(atomic(db, db2, TRUE), "DatabaseError", <<"audit_activity_log">>)
        ELSE IF sent.raised
        THEN Raised(atomic(db, sent.db, TRUE), sent.exc, sent.msg)
        ELSE Returned(atomic(db, sent.db, FALSE))

(***************************************************************************)
(* Order.generate_order_number (orders/models.py)                          *)
(***************************************************************************)
\* the numbers after the prefix are kept as their digits, most significant first
RECURSIVE Digits(_)
Digits(n) == IF n < 10 THEN <<n>> ELSE Append(Digits(n \div 10), n % 10)

RECURSIVE IntOf(_)
IntOf(ds) == IF Len(ds) = 0 THEN 0
             ELSE 10 * IntOf(SubSeq(ds, 1, Len(ds) - 1)) + ds[Len(ds)]

\* the minimum width of the "04d" conversion
PadWidth == 4

\* f"{n:0Wd}"
ZeroPad(n, width) ==
    LET ds == Digits(n)
        pad == IF Len(ds) >= width THEN 0 ELSE width - Len(ds)
    IN  [i \in 1..(pad + Len(ds)) |-> IF i <= pad THEN 0 ELSE ds[i - pad]]

\* the order of two digit strings in an ORDER BY on a character column
RECURSIVE LexLess(_, _)
LexLess(a, b) ==
    IF Len(b) = 0 THEN FALSE
    ELSE IF Len(a) = 0 THEN TRUE
    ELSE IF a[1] # b[1] THEN a[1] < b[1]
    ELSE LexLess(Tail(a), Tail(b))

\* f"ORD-{today.year}-"
YearPrefix == "ORD-YYYY-"

\* Order.generate_order_number: the highest number of the year in string
\* order, its numeric value plus one, zero-padded to four digits
generate_order_number(db) ==
    LET same_year == { db.orders[x].order_number.suffix :
                         x \in { y \in DOMAIN db.orders :
                                   db.orders[y].order_number.prefix = YearPrefix } }
        new_num == IF same_year = {} THEN 1
                   ELSE LET latest == CHOOSE a \in same_year :
                                          \A b \in same_year : ~LexLess(a, b)
                        IN  IntOf(latest) + 1
    IN  [prefix |-> YearPrefix, suffix |-> ZeroPad(new_num, PadWidth)]

(***************************************************************************)
(* billing/services.py                                                     *)
(***************************************************************************)
\* BillingService.generate_bill: update_or_create of the order's bill
generate_bill(db, o, fault) ==
    IF fault = "bill"
    THEN Raised(atomic(db, db, TRUE), "DatabaseError", <<"billing_order_bill">>)
    ELSE Returned(atomic(db,
            [db EXCEPT !.bills = (o :> [total_amount |-> BillTotal, advance_amount |-> 0]) @@ @],
            FALSE))

\* BillingService.generate_invoice: the arguments of Invoice.objects.create
\* are evaluated first, among them order.customer.phone
generate_invoice(db, o, generated_by) ==
    IF "phone" \notin CustomerProfileFields
    THEN Raised(atomic(db, db, TRUE), "AttributeError", <<"CustomerProfile", "phone">>)
    ELSE Returned(atomic(db,
            [db EXCEPT !.invoices = (o :> [status |-> "ISSUED", generated_by |-> generated_by]) @@ @],
            FALSE))

(***************************************************************************)
(* OrderService.create_order (orders/services.py)                          *)
(***************************************************************************)
WorkTypes == {"embroidery"}

\* a faulty variant of create_order: without @transaction.atomic: what was written
\* before the exception stays
create_order_not_atomic(db, work_types, is_urgent, created_by, fault) ==
    LET o == NextId(db.orders)
        db1 == [db EXCEPT
                  !.orders = (o :> [ order_number |-> generate_order_number(db),
                                     current_status |-> "booked",
                                     is_urgent |-> is_urgent,
                                     is_deleted |-> FALSE ]) @@ @,
                  !.history = (o :> << >>) @@ @]
        db2 == [db1 EXCEPT !.order_work_types =
                    @ \cup { [order |-> o, work_type |-> wt] : wt \in work_types }]
        db3 == log_activity(db2, "order", o, "CREATE", created_by, << >>,
                            <<"Order created">>)
        billed == generate_bill(db3, o, fault)
        invoiced == generate_invoice(billed.db, o, created_by)
        notified == notify_order_created(invoiced.db, o, fault)
    IN  IF billed.raised THEN Raised(db3, billed.exc, billed.msg)
        ELSE IF invoiced.raised THEN Raised(billed.db, invoiced.exc, invoiced.msg)
        ELSE IF notified.raised THEN Raised(invoiced.db, notified.exc, notified.msg)
        ELSE Returned(notified.db)

\* a faulty variant of create_order_numbered: order_number is not unique
create_order_numbered_without_unique(db, order_number, work_types, is_urgent, created_by, fault) ==
    LET initial_status == "booked"
        o == NextId(db.orders)
        duplicate == FALSE
        db1 == [db EXCEPT
                  !.orders = (o :> [ order_number |-> order_number,
                                     current_status |-> initial_status,
                                     is_urgent |-> is_urgent,
                                     is_deleted |-> FALSE ]) @@ @,
                  !.history = (o :> << >>) @@ @]
        db2 == [db1 EXCEPT !.order_work_types =
                    @ \cup { [order |-> o, work_type |-> wt] : wt \in work_types }]
        db3 == log_activity(db2, "order", o, "CREATE", created_by, << >>,
                            <<"Order created">>)
        billed == generate_bill(db3, o, fault)
        invoiced == generate_invoice(billed.db, o, created_by)
        notified == notify_order_created(invoiced.db, o, fault)
    IN  IF duplicate
        THEN Raised(atomic(db, db, TRUE), "IntegrityError", <<"order_number">>)
        ELSE IF billed.raised
        THEN Raised(atomic(db, billed.db, TRUE), billed.exc, billed.msg)
        ELSE IF invoiced.raised
        THEN Raised(atomic(db, invoiced.db, TRUE), invoiced.exc, invoiced.msg)
        ELSE IF notified.raised
        THEN Raised(atomic(db, notified.db, TRUE), notified.exc, notified.msg)
        ELSE Returned(atomic(db, notified.db, FALSE))

\* OrderService.create_order from the INSERT of the order on, with the number
\* that Order.generate_order_number returned to the request
create_order_numbered(db, order_number, work_types, is_urgent, created_by, fault) ==
    LET initial_status == "booked"
        o == NextId(db.orders)
        duplicate == \E x \in DOMAIN db.orders : db.orders[x].order_number = order_number
        db1 == [db EXCEPT
                  !.orders = (o :> [ order_number |-> order_number,
                                     current_status |-> initial_status,
                                     is_urgent |-> is_urgent,
                                     is_deleted |-> FALSE ]) @@ @,
                  !.history = (o :> << >>) @@ @]
        db2 == [db1 EXCEPT !.order_work_types =
                    @ \cup { [order |-> o, work_type |-> wt] : wt \in work_types }]
        db3 == log_activity(db2, "order", o, "CREATE", created_by, << >>,
                            <<"Order created">>)
        billed == generate_bill(db3, o, fault)
        invoiced == generate_invoice(billed.db, o, created_by)
        notified == notify_order_created(invoiced.db, o, fault)
    IN  IF duplicate
        THEN Raised(atomic(db, db, TRUE), "IntegrityError", <<"order_number">>)
        ELSE IF billed.raised
        THEN Raised(atomic(db, billed.db, TRUE), billed.exc, billed.msg)
        ELSE IF invoiced.raised
        THEN Raised(atomic(db, invoiced.db, TRUE), invoiced.exc, invoiced.msg)
        ELSE IF notified.raised
        THEN Raised(atomic(db, notified.db, TRUE), notified.exc, notified.msg)
        ELSE Returned(atomic(db, notified.db, FALSE))

\* OrderService.create_order
create_order(db, work_types, is_urgent, created_by, fault) ==
    create_order_numbered(db, generate_order_number(db), work_types, is_urgent,
                          created_by, fault)

\* PaymentServiceTests._create_order_with_invoice: an order in 'booked' with
\* its bill and its invoice, inserted row by row through the ORM
create_order_with_invoice(db) ==
    LET o == NextId(db.orders)
    IN  Returned(
          [db EXCEPT
             !.orders = (o :> [ order_number |-> [prefix |-> "ORD-TEST-", suffix |-> ZeroPad(o, 3)],
                                current_status |-> "booked",
                                is_urgent |-> FALSE,
                                is_deleted |-> FALSE ]) @@ @,
             !.history = (o :> << >>) @@ @,
             !.bills = (o :> [total_amount |-> BillTotal, advance_amount |-> 0]) @@ @,
             !.invoices = (o :> [status |-> "ISSUED", generated_by |-> "staff"]) @@ @])

(***************************************************************************)
(* payments/services.py, billing/models.py, orders/views.py                *)
(***************************************************************************)
RECURSIVE SumAmounts(_, _)
SumAmounts(table, ids) ==
    IF ids = {} THEN 0
    ELSE LET p == CHOOSE x \in ids : TRUE
         IN  table[p].amount_paid + SumAmounts(table, ids \ {p})

\* Invoice.get_total_paid
get_total_paid(db, o) ==
    SumAmounts(db.payments,
               { p \in DOMAIN db.payments :
                   db.payments[p].invoice = o /\ db.payments[p].status = "COMPLETED" })

\* Invoice.is_fully_paid
is_fully_paid(db, o) == db.bills[o].total_amount - get_total_paid(db, o) <= 0

\* a faulty variant of update_invoice_status: an invoice paid to the exact
\* total is not PAID yet
update_invoice_status_strict(db, o) ==
    IF db.bills[o].total_amount - get_total_paid(db, o) < 0
    THEN [db EXCEPT !.invoices[o].status = "PAID"]
    ELSE IF get_total_paid(db, o) > 0 THEN [db EXCEPT !.invoices[o].status = "PARTIALLY_PAID"]
    ELSE db

\* PaymentService._update_invoice_status
update_invoice_status(db, o) ==
    IF is_fully_paid(db, o) THEN [db EXCEPT !.invoices[o].status = "PAID"]
    ELSE IF get_total_paid(db, o) > 0 THEN [db EXCEPT !.invoices[o].status = "PARTIALLY_PAID"]
    ELSE db

PaymentRow(o, mode, rp_payment_id, amount, recorded_by) ==
    [ invoice |-> o, payment_mode |-> mode, razorpay_payment_id |-> rp_payment_id,
      amount_paid |-> amount, status |-> "COMPLETED", recorded_by |-> recorded_by ]

\* PaymentService.record_cash_payment
record_cash_payment(db, o, amount, recorded_by) ==
    LET p == NextId(db.payments)
        db1 == [db EXCEPT !.payments = (p :> PaymentRow(o, "cash", "", amount, recorded_by)) @@ @]
        db2 == update_invoice_status(db1, o)
        db3 == log_payment(db2, p, "RECORDED", recorded_by, "Cash payment recorded")
    IN  Returned(atomic(db, db3, FALSE))

\* orders.views.RecordCashPaymentView.post
RecordCashPaymentView_post(db, o, user) ==
    LET p == NextId(db.payments)
        existing_payment == \E x \in DOMAIN db.payments :
                               db.payments[x].invoice = o /\ db.payments[x].status = "COMPLETED"
    IN  IF db.orders[o].is_deleted
        THEN Raised(db, "Http404", << >>)
        ELSE IF "admin" \notin get_roles(user) /\ ~UserTable[user].is_superuser
        THEN [Returned(db) EXCEPT !.msg = <<"Only admin can record cash payments.">>]
        ELSE IF o \notin DOMAIN db.bills
        THEN [Returned(db) EXCEPT !.msg = <<"No bill found for this order.">>]
        ELSE IF o \notin DOMAIN db.invoices
        THEN [Returned(db) EXCEPT !.msg = <<"No invoice found for this order.">>]
        ELSE IF existing_payment
        THEN [Returned(db) EXCEPT !.msg = <<"Payment already recorded for this order.">>]
        ELSE [Returned([db EXCEPT !.payments =
                          (p :> PaymentRow(o, "cash", "", db.bills[o].total_amount, user)) @@ @])
                EXCEPT !.msg = <<"Cash payment recorded successfully.">>]

\* PaymentService.create_razorpay_order: the gateway creates the order, a row keeps it
create_razorpay_order(db, o, amount_rupees, gateway_ok) ==
    LET r == NextId(db.razorpay_orders)
    IN  IF ~gateway_ok
        THEN Raised(atomic(db, db, TRUE), "GatewayError", << >>)
        ELSE Returned(atomic(db,
                [db EXCEPT !.razorpay_orders =
                    (r :> [invoice |-> o, amount_rupees |-> amount_rupees,
                           order_status |-> "CREATED"]) @@ @],
                FALSE))

\* PaymentService.verify_and_capture_payment
verify_and_capture_payment(db, r, razorpay_payment_id, signature_ok, recorded_by) ==
    LET o == db.razorpay_orders[r].invoice
        p == NextId(db.payments)
        db1 == [db EXCEPT !.razorpay_orders[r].order_status = "PAID"]
        duplicate == \E x \in DOMAIN db.payments :
                        db.payments[x].razorpay_payment_id = razorpay_payment_id
        db2 == [db1 EXCEPT !.payments =
                   (p :> PaymentRow(o, "razorpay", razorpay_payment_id,
                                    db.razorpay_orders[r].amount_rupees, recorded_by)) @@ @]
        db3 == update_invoice_status(db2, o)
        db4 == log_payment(db3, p, "CAPTURED", recorded_by, "Payment captured")
    IN  IF ~signature_ok
        THEN Raised(atomic(db, db, TRUE), "SignatureVerificationError", << >>)
        ELSE IF duplicate
        THEN Raised(atomic(db, db1, TRUE), "IntegrityError", <<"razorpay_payment_id">>)
        ELSE Returned(atomic(db, db4, FALSE))

\* PaymentService.initiate_refund
initiate_refund(db, p, amount, initiated_by, gateway_ok) ==
    LET f == NextId(db.refunds)
        manual == [db EXCEPT !.refunds =
                     (f :> [payment |-> p, refund_amount |-> amount,
                            razorpay_refund_id |-> << >>,
                            refund_status |-> "COMPLETED"]) @@ @]
        db1 == [db EXCEPT !.refunds =
                     (f :> [payment |-> p, refund_amount |-> amount,
                            razorpay_refund_id |-> <<"rfnd", f>>,
                            refund_status |-> "PROCESSING"]) @@ @]
        db2 == [db1 EXCEPT !.payments[p].status = "REFUNDED"]
        db3 == log_payment(db2, p, "REFUND_INITIATED", initiated_by, "Refund initiated")
    IN  IF db.payments[p].payment_mode # "razorpay"
        THEN Returned(atomic(db, manual, FALSE))
        ELSE IF ~gateway_ok
        THEN Raised(atomic(db, db, TRUE), "GatewayError", << >>)
        ELSE Returned(atomic(db, db3, FALSE))

\* PaymentService._handle_payment_captured: a payment the gateway captured
\* is recorded for the invoice of its gateway order, with no recording user;
\* payments_payment.recorded_by is a column that takes no NULL
handle_payment_captured(db, event_data) ==
    LET r == event_data.order_id
        existing == \E x \in DOMAIN db.payments :
                       db.payments[x].razorpay_payment_id = event_data.payment_id
        o == db.razorpay_orders[r].invoice
        p == NextId(db.payments)
        row == PaymentRow(o, "razorpay", event_data.payment_id,
                          db.razorpay_orders[r].amount_rupees, "None")
        db1 == [db EXCEPT !.payments = (p :> row) @@ @]
        db2 == [db1 EXCEPT !.razorpay_orders[r].order_status = "PAID"]
    IN  IF existing THEN Returned(db)
        ELSE IF r \notin DOMAIN db.razorpay_orders THEN Returned(db)
        ELSE IF row.recorded_by = "None"
        THEN Raised(db, "IntegrityError", <<"recorded_by">>)
        ELSE Returned(update_invoice_status(db2, o))

\* PaymentService._handle_refund_processed
handle_refund_processed(db, event_data) ==
    LET found == { f \in DOMAIN db.refunds :
                     db.refunds[f].razorpay_refund_id = event_data.refund_id }
    IN  IF found = {} THEN Returned(db)
        ELSE Returned([db EXCEPT !.refunds[CHOOSE f \in found : TRUE].refund_status =
                                    "COMPLETED"])

\* one WebhookEvent row
WebhookEvent(event_data, status) ==
    [ event_id |-> event_data.event_id, event_type |-> event_data.event, status |-> status ]

\* the handler process_webhook runs for an event type
handle_event(db, event_data) ==
    IF event_data.event = "payment.captured" THEN handle_payment_captured(db, event_data)
    ELSE IF event_data.event = "refund.processed" THEN handle_refund_processed(db, event_data)
    ELSE Returned(db)

\* a faulty variant of process_webhook: the ledger is written but not consulted
process_webhook_unchecked(db, event_data) ==
    LET w == NextId(db.webhook_events)
        db1 == [db EXCEPT !.webhook_events = (w :> WebhookEvent(event_data, "processing")) @@ @]
        handled == handle_event(db1, event_data)
    IN  IF handled.raised
        THEN Raised(db, handled.exc, handled.msg)
        ELSE [Returned([handled.db EXCEPT !.webhook_events[w].status = "success"])
                EXCEPT !.msg = <<"True">>]

\* PaymentService.process_webhook: what it returns is kept in msg
process_webhook(db, event_data) ==
    LET existing == \E x \in DOMAIN db.webhook_events :
                       db.webhook_events[x].event_id = event_data.event_id
        w == NextId(db.webhook_events)
        db1 == [db EXCEPT !.webhook_events = (w :> WebhookEvent(event_data, "processing")) @@ @]
        handled == handle_event(db1, event_data)
    IN  IF existing
        THEN [Returned(atomic(db, db, FALSE)) EXCEPT !.msg = <<"False">>]
        ELSE IF handled.raised
        THEN Raised(atomic(db, [handled.db EXCEPT !.webhook_events[w].status = "failed"], TRUE),
                    handled.exc, handled.msg)
        ELSE [Returned(atomic(db, [handled.db EXCEPT !.webhook_events[w].status = "success"],
                              FALSE))
                EXCEPT !.msg = <<"True">>]

(***************************************************************************)
(* inventory/services.py, inventory/views.py.  Quantities, costs and       *)
(* thresholds are integers: a number of the smallest unit the column keeps.*)
(***************************************************************************)
\* the users who record stock movements; "None" is no user
NoUser == "None"

\* the LowStockAlert rows of fabric f
alerts_of(db, f) ==
    { a \in DOMAIN db.low_stock_alerts : db.low_stock_alerts[a].fabric = f }

\* a faulty variant of check_low_stock_alert: create() instead of get_or_create()
check_low_stock_alert_always_create(db, f) ==
    IF db.fabrics[f].quantity_in_stock <= db.fabrics[f].reorder_threshold
    THEN [db EXCEPT !.low_stock_alerts =
            (NextId(db.low_stock_alerts) :>
                [fabric |-> f, is_resolved |-> FALSE, resolved_at |-> "None"]) @@ @]
    ELSE db

\* a faulty variant of check_low_stock_alert: stock at the threshold is not low
check_low_stock_alert_strict(db, f) ==
    IF db.fabrics[f].quantity_in_stock < db.fabrics[f].reorder_threshold
    THEN IF alerts_of(db, f) = {}
         THEN [db EXCEPT !.low_stock_alerts =
                 (NextId(db.low_stock_alerts) :>
                     [fabric |-> f, is_resolved |-> FALSE, resolved_at |-> "None"]) @@ @]
         ELSE [db EXCEPT !.low_stock_alerts[CHOOSE a \in alerts_of(db, f) : TRUE] =
                 [fabric |-> f, is_resolved |-> FALSE, resolved_at |-> "None"]]
    ELSE db

\* InventoryService._check_low_stock_alert
check_low_stock_alert(db, f) ==
    IF db.fabrics[f].quantity_in_stock <= db.fabrics[f].reorder_threshold
    THEN IF alerts_of(db, f) = {}
         THEN [db EXCEPT !.low_stock_alerts =
                 (NextId(db.low_stock_alerts) :>
                     [fabric |-> f, is_resolved |-> FALSE, resolved_at |-> "None"]) @@ @]
         ELSE LET alert == CHOOSE a \in alerts_of(db, f) : TRUE
              IN  IF db.low_stock_alerts[alert].is_resolved
                  THEN [db EXCEPT !.low_stock_alerts[alert].is_resolved = FALSE,
                                  !.low_stock_alerts[alert].resolved_at = "None"]
                  ELSE db
    ELSE db

\* one StockTransaction row
StockTransaction(transaction_type, quantity, previous_qty, new_qty, o, recorded_by) ==
    [ transaction_type |-> transaction_type, quantity_meters |-> quantity,
      previous_quantity |-> previous_qty, new_quantity |-> new_qty,
      order |-> o, recorded_by |-> recorded_by ]

\* InventoryService.create_fabric: the ledger row is written only for a user
create_fabric(db, name, quantity_in_stock, cost_per_meter, reorder_threshold, created_by) ==
    LET db1 == [db EXCEPT
                  !.fabrics = (name :> [ quantity_in_stock |-> quantity_in_stock,
                                         cost_per_meter |-> cost_per_meter,
                                         reorder_threshold |-> reorder_threshold ]) @@ @,
                  !.stock_transactions = (name :> << >>) @@ @]
        db2 == IF created_by # NoUser
               THEN [db1 EXCEPT !.stock_transactions[name] =
                        Append(@, StockTransaction("IN", quantity_in_stock, 0,
                                                   quantity_in_stock, 0, created_by))]
               ELSE db1
        db3 == check_low_stock_alert(db2, name)
    IN  IF name \in DOMAIN db.fabrics
        THEN Raised(atomic(db, db, TRUE), "IntegrityError", <<"inventory_fabric">>)
        ELSE Returned(atomic(db, db3, FALSE))

\* InventoryService.record_stock_in
record_stock_in(db, f, quantity, recorded_by) ==
    LET previous_qty == db.fabrics[f].quantity_in_stock
        new_qty == previous_qty + quantity
        db1 == [db EXCEPT !.fabrics[f].quantity_in_stock = new_qty]
        db2 == [db1 EXCEPT !.stock_transactions[f] =
                   Append(@, StockTransaction("IN", quantity, previous_qty, new_qty,
                                              0, recorded_by))]
    IN  IF recorded_by = NoUser
        THEN Raised(atomic(db, db1, TRUE), "IntegrityError", <<"recorded_by">>)
        ELSE Returned(atomic(db, db2, FALSE))

\* a faulty variant of record_stock_out: the stock is not compared with the quantity
record_stock_out_unchecked(db, f, quantity, o, recorded_by, fault) ==
    LET previous_qty == db.fabrics[f].quantity_in_stock
        new_qty == previous_qty - quantity
        db1 == [db EXCEPT !.fabrics[f].quantity_in_stock = new_qty]
        db2 == [db1 EXCEPT !.stock_transactions[f] =
                   Append(@, StockTransaction("OUT", quantity, previous_qty, new_qty,
                                              o, recorded_by))]
    IN  Returned(check_low_stock_alert(db2, f))

\* InventoryService.record_stock_out
record_stock_out(db, f, quantity, o, recorded_by, fault) ==
    LET previous_qty == db.fabrics[f].quantity_in_stock
        new_qty == previous_qty - quantity
        db1 == [db EXCEPT !.fabrics[f].quantity_in_stock = new_qty]
        db2 == [db1 EXCEPT !.stock_transactions[f] =
                   Append(@, StockTransaction("OUT", quantity, previous_qty, new_qty,
                                              o, recorded_by))]
        db3 == check_low_stock_alert(db2, f)
    IN  IF previous_qty < quantity
        THEN Raised(atomic(db, db, TRUE), "ValidationError",
                    <<"Insufficient stock. Available: {}m, Required: {}m",
                      ToString(previous_qty), ToString(quantity)>>)
        ELSE IF fault = "ledger"
        THEN Raised(atomic(db, db1, TRUE), "DatabaseError", <<"inventory_stock_transaction">>)
        ELSE IF recorded_by = NoUser
        THEN Raised(atomic(db, db1, TRUE), "IntegrityError", <<"recorded_by">>)
        ELSE Returned(atomic(db, db3, FALSE))

\* a faulty variant of record_damage: damage over the stock empties the stock
record_damage_clamped(db, f, quantity, recorded_by) ==
    LET previous_qty == db.fabrics[f].quantity_in_stock
        new_qty == IF previous_qty < quantity THEN 0 ELSE previous_qty - quantity
        db1 == [db EXCEPT !.fabrics[f].quantity_in_stock = new_qty]
        db2 == [db1 EXCEPT !.stock_transactions[f] =
                   Append(@, StockTransaction("DAMAGE", quantity, previous_qty, new_qty,
                                              0, recorded_by))]
    IN  Returned(db2)

\* InventoryService.record_damage
record_damage(db, f, quantity, recorded_by) ==
    LET previous_qty == db.fabrics[f].quantity_in_stock
        new_qty == previous_qty - quantity
        db1 == [db EXCEPT !.fabrics[f].quantity_in_stock = new_qty]
        db2 == [db1 EXCEPT !.stock_transactions[f] =
                   Append(@, StockTransaction("DAMAGE", quantity, previous_qty, new_qty,
                                              0, recorded_by))]
        db3 == check_low_stock_alert(db2, f)
    IN  IF previous_qty < quantity
        THEN Raised(atomic(db, db, TRUE), "ValidationError",
                    <<"Cannot record damage greater than available stock.">>)
        ELSE IF recorded_by = NoUser
        THEN Raised(atomic(db, db1, TRUE), "IntegrityError", <<"recorded_by">>)
        ELSE Returned(atomic(db, db3, FALSE))

\* InventoryService.resolve_alert
resolve_alert(db, a) ==
    Returned(atomic(db,
        [db EXCEPT !.low_stock_alerts[a].is_resolved = TRUE,
                   !.low_stock_alerts[a].resolved_at = "now"],
        FALSE))

\* FabricEditView.form_valid: the form saves the fabric (FabricForm holds
\* quantity_in_stock, cost_per_meter and reorder_threshold, the model's
\* validators refuse what is below 0), then the alert is checked
FabricEditView_form_valid(db, f, quantity_in_stock, cost_per_meter, reorder_threshold) ==
    LET db1 == [db EXCEPT !.fabrics[f] = [ quantity_in_stock |-> quantity_in_stock,
                                           cost_per_meter |-> cost_per_meter,
                                           reorder_threshold |-> reorder_threshold ]]
    IN  IF quantity_in_stock < 0 \/ cost_per_meter < 0
        THEN [Returned(db) EXCEPT !.msg = <<"Ensure this value is greater than or equal to 0.">>]
        ELSE [Returned(check_low_stock_alert(db1, f))
                EXCEPT !.msg = <<"Fabric updated successfully.">>]

(***************************************************************************)
(* OrderService.assign_staff, OrderService.allocate_material and the edit  *)
(* and delete views of an order (orders/services.py, orders/views.py)      *)
(***************************************************************************)
\* OrderService.assign_staff
assign_staff(db, o, staff, role_type, assigned_by) ==
    LET db1 == [db EXCEPT !.assignments = @ (+) SetToBag({
                    [ order |-> o, staff |-> staff, role_type |-> role_type,
                      assigned_by |-> assigned_by ] })]
        db2 == log_activity(db1, "order", o, "UPDATE", assigned_by,
                            <<staff, role_type>>, <<role_type, staff, "assigned">>)
    IN  Returned(atomic(db, db2, FALSE))

\* a faulty variant of allocation_row: the cost is not copied from the fabric
allocation_row_without_cost(o, f, quantity_meters, unit_cost, allocated_by) ==
    [ order |-> o, fabric |-> f, quantity_meters |-> quantity_meters,
      unit_cost |-> 0, allocated_by |-> allocated_by ]

\* the OrderMaterialAllocation row of one allocation
allocation_row(o, f, quantity_meters, unit_cost, allocated_by) ==
    [ order |-> o, fabric |-> f, quantity_meters |-> quantity_meters,
      unit_cost |-> unit_cost, allocated_by |-> allocated_by ]

\* a faulty variant of allocation_exists: the pair (order, fabric) is not unique
allocation_exists_never(db, o, f) == FALSE

\* unique_together = ('order', 'fabric')
allocation_exists(db, o, f) ==
    \E a \in DOMAIN db.allocations :
        db.allocations[a].order = o /\ db.allocations[a].fabric = f

\* a faulty variant of allocate_material: what is available is allocated when
\* the stock is short
allocate_material_partial(db, o, f, quantity_meters, allocated_by, fault) ==
    LET available == db.fabrics[f].quantity_in_stock
        q == IF available < quantity_meters THEN available ELSE quantity_meters
        db1 == [db EXCEPT !.allocations =
                   (NextId(db.allocations) :>
                       allocation_row(o, f, q, db.fabrics[f].cost_per_meter,
                                      allocated_by)) @@ @]
        out == record_stock_out(db1, f, q, o, allocated_by, fault)
    IN  IF allocation_exists(db, o, f)
        THEN Raised(db, "IntegrityError", <<"orders_order_material_allocation">>)
        ELSE IF out.raised THEN Raised(db, out.exc, out.msg)
        ELSE Returned(out.db)

\* OrderService.allocate_material
allocate_material(db, o, f, quantity_meters, allocated_by, fault) ==
    LET db1 == [db EXCEPT !.allocations =
                   (NextId(db.allocations) :>
                       allocation_row(o, f, quantity_meters, db.fabrics[f].cost_per_meter,
                                      allocated_by)) @@ @]
        out == record_stock_out(db1, f, quantity_meters, o, allocated_by, fault)
    IN  IF db.fabrics[f].quantity_in_stock < quantity_meters
        THEN Raised(atomic(db, db, TRUE), "ValidationError",
                    <<"Insufficient stock. Available: {}m, Required: {}m",
                      ToString(db.fabrics[f].quantity_in_stock), ToString(quantity_meters)>>)
        ELSE IF allocation_exists(db, o, f)
        THEN Raised(atomic(db, db, TRUE), "IntegrityError",
                    <<"orders_order_material_allocation">>)
        ELSE IF out.raised
        THEN Raised(atomic(db, out.db, TRUE), out.exc, out.msg)
        ELSE Returned(atomic(db, out.db, FALSE))

\* OrderAllocateMaterialView.post: the order must not be deleted, the form
\* offers the fabrics that have stock and takes any decimal as the quantity,
\* the service does the rest
OrderAllocateMaterialView_post(db, o, f, quantity, user, fault) ==
    IF db.orders[o].is_deleted
    THEN Raised(db, "Http404", << >>)
    ELSE IF ~(db.fabrics[f].quantity_in_stock > 0)
    THEN [Returned(db) EXCEPT !.msg = <<"Invalid allocation data.">>]
    ELSE allocate_material(db, o, f, quantity, user, fault)

\* OrderEditView with OrderEditForm: expected_delivery_date, is_urgent and
\* special_instructions of an order that is not deleted
OrderEditView_form_valid(db, o, is_urgent) ==
    IF db.orders[o].is_deleted
    THEN Raised(db, "Http404", << >>)
    ELSE [Returned([db EXCEPT !.orders[o].is_urgent = is_urgent])
            EXCEPT !.msg = <<"Order updated successfully.">>]

\* a faulty variant of OrderDeleteView_post: the history of the order is deleted too
OrderDeleteView_post_hard(db, o) ==
    Returned([db EXCEPT !.orders[o].is_deleted = TRUE,
                        !.history[o] = << >>])

\* OrderDeleteView.post
OrderDeleteView_post(db, o) ==
    [Returned([db EXCEPT !.orders[o].is_deleted = TRUE])
       EXCEPT !.msg = <<"Order deleted.">>]

(***************************************************************************)
(* The state machine: one action per service call or view.                 *)
(***************************************************************************)
Init ==
    /\ \E seeded \in BOOLEAN :
          /\ statuses = IF seeded THEN SeedStatuses ELSE TestStatuses
          /\ transitions = IF seeded THEN SeedTransitions ELSE TestTransitions
          /\ notification_types = IF seeded THEN SeedNotificationTypes ELSE {}
    /\ orders = << >>
    /\ order_work_types = {}
    /\ bills = << >>
    /\ invoices = << >>
    /\ razorpay_orders = << >>
    /\ payments = << >>
    /\ refunds = << >>
    /\ history = << >>
    /\ assignments = EmptyBag
    /\ allocations = << >>
    /\ fabrics = << >>
    /\ stock_transactions = << >>
    /\ low_stock_alerts = << >>
    /\ webhook_events = << >>
    /\ requests = << >>
    /\ audit = EmptyBag
    /\ notifications = EmptyBag
    /\ last = [op |-> "", order |-> 0, raised |-> FALSE, exc |-> "", msg |-> << >>]

RECURSIVE SumLen(_, _)
SumLen(f, ids) ==
    IF ids = {} THEN 0
    ELSE LET x == CHOOSE y \in ids : TRUE IN Len(f[x]) + SumLen(f, ids \ {x})

\* the rows inserted so far into the tables that grow without limit
Rows ==
    Cardinality(DOMAIN orders) + SumLen(history, DOMAIN history)
      + Cardinality(DOMAIN payments) + Cardinality(DOMAIN razorpay_orders)
      + Cardinality(DOMAIN refunds)
      + BagCardinality(assignments) + Cardinality(DOMAIN allocations)
      + Cardinality(DOMAIN fabrics)
      + SumLen(stock_transactions, DOMAIN stock_transactions)
      + Cardinality(DOMAIN webhook_events)

\* the template of a message, without the values formatted into it
Template(msg) == IF msg = << >> THEN << >> ELSE <<msg[1]>>

\* the call op on order o ended as r: its database is the stored one from now on
Store(op, o, r) ==
    /\ notification_types' = r.db.notification_types
    /\ orders' = r.db.orders
    /\ order_work_types' = r.db.order_work_types
    /\ bills' = r.db.bills
    /\ invoices' = r.db.invoices
    /\ razorpay_orders' = r.db.razorpay_orders
    /\ payments' = r.db.payments
    /\ refunds' = r.db.refunds
    /\ history' = r.db.history
    /\ assignments' = r.db.assignments
    /\ allocations' = r.db.allocations
    /\ fabrics' = r.db.fabrics
    /\ stock_transactions' = r.db.stock_transactions
    /\ low_stock_alerts' = r.db.low_stock_alerts
    /\ webhook_events' = r.db.webhook_events
    /\ audit' = r.db.audit
    /\ notifications' = r.db.notifications
    /\ last' = [op |-> op, order |-> o, raised |-> r.raised, exc |-> r.exc, msg |-> Template(r.msg)]

\* a call made while no other request is in flight
Commit(op, o, r) ==
    /\ Store(op, o, r)
    /\ UNCHANGED <<statuses, transitions, requests>>

CreateOrder(work_types, is_urgent, created_by, fault) ==
    /\ Rows < MaxRows
    /\ Cardinality(DOMAIN orders) < MaxOrders
    /\ Commit("create_order", NextId(orders),
              create_order(DB, work_types, is_urgent, created_by, fault))

CreateOrderWithInvoice ==
    /\ Rows < MaxRows
    /\ Cardinality(DOMAIN orders) < MaxOrders
    /\ Commit("create_order_with_invoice", NextId(orders), create_order_with_invoice(DB))

TransitionStatus(o, new_status, changed_by, reason, fault) ==
    /\ Rows < MaxRows
    /\ Commit("transition_status", o,
              transition_status(DB, o, new_status, changed_by, reason, fault))

RecordCashPayment(o, amount, recorded_by) ==
    /\ Rows < MaxRows
    /\ Commit("record_cash_payment", o, record_cash_payment(DB, o, amount, recorded_by))

RecordCashPaymentView(o, user) ==
    /\ Rows < MaxRows
    /\ Commit("RecordCashPaymentView", o, RecordCashPaymentView_post(DB, o, user))

CreateRazorpayOrder(o, amount, gateway_ok) ==
    /\ Rows < MaxRows
    /\ Commit("create_razorpay_order", o, create_razorpay_order(DB, o, amount, gateway_ok))

VerifyAndCapturePayment(r, razorpay_payment_id, signature_ok, recorded_by) ==
    /\ Rows < MaxRows
    /\ Commit("verify_and_capture_payment", razorpay_orders[r].invoice,
              verify_and_capture_payment(DB, r, razorpay_payment_id, signature_ok, recorded_by))

InitiateRefund(p, initiated_by, gateway_ok) ==
    /\ Rows < MaxRows
    /\ Commit("initiate_refund", payments[p].invoice,
              initiate_refund(DB, p, payments[p].amount_paid, initiated_by, gateway_ok))

\* what the environment of the order workflow supplies
Amounts == {1, BillTotal}
Cashiers == {"staff"}
PaymentIds == {"pay_1"}

\* the calls that touch neither orders nor their history
PaymentCalls ==
    \/ \E o \in DOMAIN invoices, a \in Amounts, u \in Cashiers : RecordCashPayment(o, a, u)
    \/ \E o \in DOMAIN orders, u \in {"admin", "staff"} : RecordCashPaymentView(o, u)
    \/ \E o \in DOMAIN invoices, ok \in BOOLEAN : CreateRazorpayOrder(o, BillTotal, ok)
    \/ \E r \in DOMAIN razorpay_orders, id \in PaymentIds, ok \in BOOLEAN :
          VerifyAndCapturePayment(r, id, ok, CustomerUser)
    \/ \E p \in DOMAIN payments, ok \in BOOLEAN : InitiateRefund(p, "admin", ok)

\* the users who change statuses: one for each outcome of the role gate
Actors == {"admin", "tailor", "delivery", create_user}

\* the infrastructure works
Next ==
    \/ \E wts \in SUBSET WorkTypes, urgent \in BOOLEAN, u \in {"admin", create_user} :
          CreateOrder(wts, urgent, u, "none")
    \/ CreateOrderWithInvoice
    \/ \E o \in DOMAIN orders, s \in StatusNames, u \in Actors, reason \in Reasons :
          TransitionStatus(o, s, u, reason, "none")
    \/ PaymentCalls

Spec == Init /\ [][Next]_vars

\* what can fail underneath a call: a table that cannot be written, the mail server
Faults == {"none", "bill", "history", "audit", "notification", "email"}

\* the administrator acts, the infrastructure may fail
NextFault ==
    \/ \E fault \in Faults : CreateOrder({}, FALSE, "admin", fault)
    \/ CreateOrderWithInvoice
    \/ \E o \in DOMAIN orders, s \in StatusNames, fault \in Faults :
          TransitionStatus(o, s, "admin", "", fault)
    \/ \E o \in DOMAIN orders : RecordCashPaymentView(o, "admin")

SpecFault == Init /\ [][NextFault]_vars

(***************************************************************************)
(* Properties of transition_status.                                        *)
(***************************************************************************)
\* the last row of an order's history
LastRow(o) == history[o][Len(history[o])]

\* a COMPLETED payment linked to order o through its invoice and its bill
CompletedPayment(o) ==
    \E p \in DOMAIN payments :
        /\ payments[p].status = "COMPLETED"
        /\ payments[p].invoice = o
        /\ o \in DOMAIN invoices
        /\ o \in DOMAIN bills

\* the pairs (from, to) a role is granted by name
AllowList(role) ==
    CASE role = "tailor" ->
            { <<"fabric_allocated", "stitching">>, <<"stitching", "trial_scheduled">>,
              <<"stitching", "ready">>, <<"trial_scheduled", "ready">>,
              <<"alteration", "ready">> }
      [] role = "designer" -> { <<"booked", "fabric_allocated">> }
      [] role = "delivery" -> { <<"ready", "delivered">> }
      [] OTHER -> {}

EdgeExists(o, s) ==
    \E t \in transitions : t.from_status = orders[o].current_status /\ t.to_status = s

Authorised(o, s, u) ==
    \/ UserTable[u].is_superuser
    \/ "admin" \in UserTable[u].roles
    \/ "staff" \in UserTable[u].roles
    \/ \E role \in UserTable[u].roles : <<orders[o].current_status, s>> \in AllowList(role)

C3_RejectedCallChangesNothing ==
    /\ [](\A o \in DOMAIN orders, s \in StatusNames, u \in Users :
            LET r == transition_status(DB, o, s, u, "", "none")
            IN  r.raised => /\ r.db.orders = orders
                            /\ r.db.history = history
                            /\ r.db.audit = audit
                            /\ r.db.notifications = notifications)
    /\ [](\A o \in DOMAIN orders :
            orders[o].current_status = "booked"
              => transition_status(DB, o, "ready", "admin", "", "none").raised)
    /\ [][last'.op = "transition_status" /\ last'.raised
            => UNCHANGED <<orders, history, audit, notifications>>]_vars

\* a call was rejected for the missing edge on an order that is still 'booked'
C3_RejectedOnBooked ==
    /\ last.op = "transition_status" /\ last.raised
    /\ last.msg = <<invalid_transition_error.text>>
    /\ orders[last.order].current_status = "booked"
    /\ history[last.order] = << >>

\* the cause of a rejection, from what the code checked
Cause(o, s, u) ==
    IF ~EdgeExists(o, s) THEN "invalid transition"
    ELSE IF ~Authorised(o, s, u) THEN "unauthorized"
    ELSE IF s = "delivered" /\ ~CompletedPayment(o) THEN "precondition failed"
    ELSE "none"

C5_OneHistoryRowPerSuccess ==
    /\ [](\A o \in DOMAIN orders, s \in StatusNames, u \in Users, reason \in Reasons :
            LET r == transition_status(DB, o, s, u, reason, "none")
            IN  ~r.raised =>
                  /\ r.db.orders[o].current_status = s
                  /\ r.db.history =
                       [history EXCEPT ![o] = Append(@,
                           [ order |-> o, from_status |-> orders[o].current_status,
                             to_status |-> s, changed_by |-> u, change_reason |-> reason ])])
    /\ [][\A o \in DOMAIN orders' :
            IF o \notin DOMAIN orders THEN history'[o] = << >>
            ELSE IF last'.op = "transition_status" /\ last'.order = o /\ ~last'.raised
            THEN /\ Len(history'[o]) = Len(history[o]) + 1
                 /\ SubSeq(history'[o], 1, Len(history[o])) = history[o]
                 /\ history'[o][Len(history'[o])].from_status = orders[o].current_status
                 /\ history'[o][Len(history'[o])].to_status = orders'[o].current_status
            ELSE history'[o] = history[o]]_vars

\* an order has two history rows, the second one with a reason
C5_TwoRowsWithReason ==
    \E o \in DOMAIN orders :
        /\ Len(history[o]) = 2
        /\ history[o][2].change_reason = "customer request"
        /\ history[o][2].from_status = history[o][1].to_status

\* what one call of transition_status wrote of its three rows, under a fault:
\* nothing of them, or all of them
NoneWritten(o, db) ==
    db.orders = orders /\ db.history = history /\ db.audit = audit

AllWritten(o, s, db) ==
    /\ db.orders[o].current_status = s
    /\ s # orders[o].current_status
    /\ Len(db.history[o]) = Len(history[o]) + 1
    /\ BagCardinality(db.audit) = BagCardinality(audit) + 1

\* C6: the status, the history row and the audit entry of one call of
\* transition_status are stored together or not at all; when the history row
\* or the audit entry cannot be written the stored status is the one before
\* the call and neither row exists.
C6_StatusHistoryAuditTogether ==
    /\ [](\A o \in DOMAIN orders, s \in StatusNames, fault \in Faults :
            LET r == transition_status(DB, o, s, "admin", "", fault)
            IN  /\ NoneWritten(o, r.db) \/ AllWritten(o, s, r.db)
                /\ fault \in {"history", "audit"} => NoneWritten(o, r.db))
    /\ [][last'.op = "transition_status"
            => \/ NoneWritten(last'.order, DB')
               \/ AllWritten(last'.order, orders'[last'.order].current_status, DB')]_vars

\* the audit entry of a transition could not be written and the order is as before
C6_AuditWriteFailed ==
    /\ last.op = "transition_status" /\ last.raised
    /\ last.exc = "DatabaseError" /\ last.msg = <<"audit_activity_log">>
    /\ orders[last.order].current_status = "booked"
    /\ history[last.order] = << >>

\* C7 (as stated): a transition that succeeds when the notification step works
\* succeeds as well when the notification row cannot be written or the e-mail
\* is not delivered, with status, history row and audit entry stored.
C7_NotificationFailureKeepsTransition ==
    \A o \in DOMAIN orders, s \in StatusNames, fault \in {"notification", "email"} :
        ~transition_status(DB, o, s, "admin", "", "none").raised
          => LET r == transition_status(DB, o, s, "admin", "", fault)
             IN  ~r.raised /\ AllWritten(o, s, r.db)

\* C8 (as stated): in the graph of the tests, the walk booked -> in_progress ->
\* ready -> delivered on a fresh order by a user made with create_user succeeds
\* at every call and ends in a final status.
C8_LifecycleWalkSucceeds ==
    transitions = TestTransitions =>
      \A o \in DOMAIN orders :
          orders[o].current_status = "booked" /\ history[o] = << >> =>
            LET r1 == transition_status(DB, o, "in_progress", create_user, "", "none")
                r2 == transition_status(r1.db, o, "ready", create_user, "", "none")
                r3 == transition_status(r2.db, o, "delivered", create_user, "", "none")
            IN  /\ ~r1.raised /\ r1.db.orders[o].current_status = "in_progress"
                /\ ~r2.raised /\ r2.db.orders[o].current_status = "ready"
                /\ ~r3.raised /\ r3.db.orders[o].current_status = "delivered"
                /\ statuses[r3.db.orders[o].current_status].is_final_state

\* C9 (as stated): create_order succeeds and returns a new order in 'booked'
\* with its order_number set, one bill and one invoice.
C9_CreateOrderSucceeds ==
    \A wts \in SUBSET WorkTypes, urgent \in BOOLEAN, u \in {"admin", create_user} :
        LET r == create_order(DB, wts, urgent, u, "none")
            o == NextId(orders)
        IN  /\ ~r.raised
            /\ o \in DOMAIN r.db.orders
            /\ r.db.orders[o].current_status = "booked"
            /\ Len(r.db.orders[o].order_number.suffix) > 0
            /\ o \in DOMAIN r.db.bills
            /\ o \in DOMAIN r.db.invoices

\* C10: when generate_bill or generate_invoice raises inside create_order,
\* no Order row, no OrderWorkType row, no audit entry and no bill of the
\* creation is stored.
C10_CreateOrderAtomic ==
    /\ [](\A wts \in SUBSET WorkTypes, fault \in Faults :
            LET r == create_order(DB, wts, FALSE, "admin", fault)
            IN  r.raised => /\ r.db.orders = orders
                            /\ r.db.order_work_types = order_work_types
                            /\ r.db.audit = audit
                            /\ r.db.bills = bills)
    /\ [][last'.op = "create_order" /\ last'.raised
            => UNCHANGED <<orders, order_work_types, audit, bills, invoices>>]_vars

\* generate_bill failed inside create_order
C10_BillGenerationFailed ==
    /\ last.op = "create_order" /\ last.raised
    /\ last.exc = "DatabaseError" /\ last.msg = <<"billing_order_bill">>

(***************************************************************************)
(* The actions of the order views and of the inventory.                    *)
(***************************************************************************)
\* the rows of the stock ledger, over all fabrics
StockRows == SumLen(stock_transactions, DOMAIN stock_transactions)

EditOrder(o, is_urgent) ==
    /\ Rows < MaxRows
    /\ Commit("OrderEditView", o, OrderEditView_form_valid(DB, o, is_urgent))

DeleteOrder(o) ==
    /\ Rows < MaxRows
    /\ Commit("OrderDeleteView", o, OrderDeleteView_post(DB, o))

AssignStaff(o, staff, role_type, assigned_by) ==
    /\ Rows < MaxRows
    /\ Commit("assign_staff", o, assign_staff(DB, o, staff, role_type, assigned_by))

AllocateMaterial(o, f, quantity_meters, allocated_by, fault) ==
    /\ Rows < MaxRows
    /\ StockRows < MaxStockRows
    /\ Commit("allocate_material", o,
              OrderAllocateMaterialView_post(DB, o, f, quantity_meters, allocated_by, fault))

CreateFabric(name, quantity_in_stock, cost_per_meter, reorder_threshold, created_by) ==
    /\ Rows < MaxRows
    /\ StockRows < MaxStockRows
    /\ Commit("create_fabric", 0,
              create_fabric(DB, name, quantity_in_stock, cost_per_meter,
                            reorder_threshold, created_by))

RecordStockIn(f, quantity, recorded_by) ==
    /\ Rows < MaxRows
    /\ StockRows < MaxStockRows
    /\ Commit("record_stock_in", 0, record_stock_in(DB, f, quantity, recorded_by))

RecordStockOut(f, quantity, recorded_by, fault) ==
    /\ Rows < MaxRows
    /\ StockRows < MaxStockRows
    /\ Commit("record_stock_out", 0, record_stock_out(DB, f, quantity, 0, recorded_by, fault))

RecordDamage(f, quantity, recorded_by) ==
    /\ Rows < MaxRows
    /\ StockRows < MaxStockRows
    /\ Commit("record_damage", 0, record_damage(DB, f, quantity, recorded_by))

ResolveAlert(a) ==
    /\ Rows < MaxRows
    /\ Commit("resolve_alert", 0, resolve_alert(DB, a))

EditFabric(f, quantity_in_stock, cost_per_meter, reorder_threshold) ==
    /\ Rows < MaxRows
    /\ Commit("FabricEditView", 0,
              FabricEditView_form_valid(DB, f, quantity_in_stock, cost_per_meter,
                                        reorder_threshold))

\* what the inventory clerk enters: a fabric's opening stock and reorder threshold
FabricNames == {"cotton", "silk"}
FabricKinds == {<<2, 1>>, <<50, 10>>}
Quantities == {1, 45}
AllocatedQuantities == {-1, 1, 45}
InventoryFaults == {"none", "ledger"}

\* the inventory: one fabric, its stock movements, its alert, its allocations to orders
NextInventory ==
    \/ CreateOrderWithInvoice
    \/ \E o \in DOMAIN orders : DeleteOrder(o)
    \/ \E k \in FabricKinds, u \in {NoUser, "staff"} : CreateFabric("cotton", k[1], 1, k[2], u)
    \/ \E f \in DOMAIN fabrics : RecordStockIn(f, 1, "staff")
    \/ \E f \in DOMAIN fabrics, q \in Quantities : RecordStockOut(f, q, "staff", "none")
    \/ \E f \in DOMAIN fabrics, q \in Quantities : RecordDamage(f, q, "staff")
    \/ \E a \in DOMAIN low_stock_alerts : ResolveAlert(a)
    \/ \E f \in DOMAIN fabrics, q \in {-1, 2} :
          EditFabric(f, q, 2, fabrics[f].reorder_threshold)
    \/ \E o \in DOMAIN orders, f \in DOMAIN fabrics, q \in AllocatedQuantities,
          fault \in InventoryFaults :
          AllocateMaterial(o, f, q, "staff", fault)

SpecInventory == Init /\ [][NextInventory]_vars

\* the order views: the administrator edits, assigns, allocates, transitions and deletes
NextOrders ==
    \/ CreateOrderWithInvoice
    \/ \E o \in DOMAIN orders, s \in StatusNames : TransitionStatus(o, s, "admin", "", "none")
    \/ \E o \in DOMAIN orders, urgent \in BOOLEAN : EditOrder(o, urgent)
    \/ \E o \in DOMAIN orders : AssignStaff(o, "tailor", "tailor", "admin")
    \/ \E o \in DOMAIN orders : RecordCashPaymentView(o, "admin")
    \/ \E o \in DOMAIN orders : DeleteOrder(o)
    \/ \E name \in FabricNames : CreateFabric(name, 2, 1, 1, "admin")
    \/ \E f \in DOMAIN fabrics : EditFabric(f, fabrics[f].quantity_in_stock, 2,
                                            fabrics[f].reorder_threshold)
    \/ \E o \in DOMAIN orders, f \in DOMAIN fabrics, q \in {1, 3}, fault \in InventoryFaults :
          AllocateMaterial(o, f, q, "admin", fault)

SpecOrders == Init /\ [][NextOrders]_vars

(***************************************************************************)
(* Properties of the order views.                                          *)
(***************************************************************************)
\* C11: no operation other than a successful transition_status changes an
\* order's current_status (editing, assigning staff, allocating material,
\* recording a payment and deleting leave it alone), no operation removes an
\* order row, and a delete sets the soft-delete flag of its order and changes
\* nothing else: the row and its history stay.
C11_OnlyTransitionChangesStatus ==
    [][ /\ \A o \in DOMAIN orders :
             /\ o \in DOMAIN orders'
             /\ orders'[o].current_status # orders[o].current_status
                  => /\ last'.op = "transition_status"
                     /\ last'.order = o
                     /\ ~last'.raised
        /\ last'.op = "OrderDeleteView"
             => /\ ~last'.raised
                /\ orders' = [orders EXCEPT ![last'.order].is_deleted = TRUE]
                /\ history' = history
                /\ UNCHANGED <<bills, invoices, payments, assignments, allocations,
                               fabrics, stock_transactions>>
      ]_vars

\* an order that went through a transition and was then deleted
C11_DeletedAfterTransition ==
    /\ last.op = "OrderDeleteView"
    /\ last.order \in DOMAIN orders
    /\ orders[last.order].is_deleted
    /\ orders[last.order].current_status # "booked"
    /\ Len(history[last.order]) > 0

(***************************************************************************)
(* Properties of the order numbers.                                        *)
(***************************************************************************)
\* how many orders the year has seen before the next one is numbered
YearCounts == {1, 9, 10, 9999, 10000}

\* the orders table after n orders of the year were numbered 1 .. n in turn,
\* whatever happened to them later (is_deleted is not read by the generator)
YearOrders(n) ==
    [DB EXCEPT !.orders =
        [i \in 1..n |-> [order_number |-> [prefix |-> YearPrefix,
                                           suffix |-> ZeroPad(i, PadWidth)],
                         is_deleted |-> (i % 2 = 0)]]]

\* C12: the number given to the next order of the year has a suffix strictly
\* greater than the suffix of every earlier order of the year, for any number
\* of earlier orders (also past the zero-padded width) and also when some of
\* them are soft-deleted.
C12_SuffixStrictlyIncreasing ==
    \A n \in YearCounts :
        LET earlier == YearOrders(n)
            next_suffix == IntOf(generate_order_number(earlier).suffix)
        IN  \A x \in DOMAIN earlier.orders :
                next_suffix > IntOf(earlier.orders[x].order_number.suffix)

(***************************************************************************)
(* Properties of allocate_material.                                        *)
(***************************************************************************)
\* the quantities asked for in the properties below: under, at and over the stock
AskedQuantities == AllocatedQuantities \cup {2, 3}

C14_InsufficientStockAllocatesNothing ==
    /\ [](\A o \in DOMAIN orders, f \in DOMAIN fabrics, q \in AskedQuantities :
            fabrics[f].quantity_in_stock < q =>
               LET r == allocate_material(DB, o, f, q, "admin", "none")
               IN  /\ r.raised
                   /\ r.exc = "ValidationError"
                   /\ r.msg = <<"Insufficient stock. Available: {}m, Required: {}m",
                                ToString(fabrics[f].quantity_in_stock), ToString(q)>>
                   /\ r.db = DB)
    /\ [][(last'.op = "allocate_material" /\ last'.exc = "ValidationError") =>
             UNCHANGED <<allocations, fabrics, stock_transactions, low_stock_alerts,
                         orders>>]_vars

\* an allocation was refused although some of the fabric was in stock
C14_RefusedWithStockLeft ==
    /\ last.op = "allocate_material"
    /\ last.raised
    /\ last.exc = "ValidationError"
    /\ \E f \in DOMAIN fabrics : fabrics[f].quantity_in_stock > 0
    /\ allocations = << >>

\* C15: no two allocations have the same order and the same fabric; a second
\* allocate_material for a pair that has an allocation fails, whatever the
\* quantity, and leaves the stock, the ledger and the allocations as they were.
C15_OneAllocationPerOrderAndFabric ==
    /\ [](/\ \A a, b \in DOMAIN allocations :
                (/\ allocations[a].order = allocations[b].order
                 /\ allocations[a].fabric = allocations[b].fabric) => a = b
          /\ \A a \in DOMAIN allocations, q \in AskedQuantities :
                LET r == allocate_material(DB, allocations[a].order, allocations[a].fabric,
                                           q, "admin", "none")
                IN  r.raised /\ r.db = DB)
    /\ [][(last'.op = "allocate_material" /\ last'.exc = "IntegrityError") =>
             UNCHANGED <<allocations, fabrics, stock_transactions, low_stock_alerts>>]_vars

\* a second allocation of a fabric that is still in stock to the same order was refused
C15_SecondAllocationRefused ==
    /\ last.op = "allocate_material"
    /\ last.exc = "IntegrityError"
    /\ \E a \in DOMAIN allocations :
          /\ allocations[a].order = last.order
          /\ fabrics[allocations[a].fabric].quantity_in_stock > 0

(***************************************************************************)
(* Properties of the inventory.                                            *)
(***************************************************************************)
\* the signed quantity of a ledger row: IN adds, OUT and DAMAGE take away
Signed(row) ==
    IF row.transaction_type = "IN" THEN row.quantity_meters ELSE 0 - row.quantity_meters

\* the sum of the signed quantities of a ledger
RECURSIVE LedgerSum(_)
LedgerSum(rows) ==
    IF Len(rows) = 0 THEN 0
    ELSE LedgerSum(SubSeq(rows, 1, Len(rows) - 1)) + Signed(rows[Len(rows)])

\* C16: for every fabric, in every reachable state, quantity_in_stock is the
\* sum of the signed quantities of its ledger rows since its creation, every
\* row's new_quantity is its previous_quantity plus its signed quantity, and
\* the last row's new_quantity is the stock.
C16_StockEqualsLedgerSum ==
    \A f \in DOMAIN fabrics :
        LET rows == stock_transactions[f]
        IN  /\ fabrics[f].quantity_in_stock = LedgerSum(rows)
            /\ \A i \in DOMAIN rows :
                  /\ rows[i].new_quantity = rows[i].previous_quantity + Signed(rows[i])
                  /\ rows[i].previous_quantity = (IF i = 1 THEN 0 ELSE rows[i - 1].new_quantity)
            /\ Len(rows) > 0 => rows[Len(rows)].new_quantity = fabrics[f].quantity_in_stock

\* the quantities the stock forms admit (min_value = 0.01): positive ones
StockQuantities == Quantities \cup {2, 3}

\* C17: with the quantities the forms admit, no sequence of fabric creation,
\* stock-in, stock-out, damage, material allocation and fabric edits brings a
\* fabric's quantity_in_stock below zero, and no single such call would.
C17_StockNeverNegative ==
    \A f \in DOMAIN fabrics :
        /\ fabrics[f].quantity_in_stock >= 0
        /\ \A q \in StockQuantities :
              /\ record_stock_out(DB, f, q, 0, "staff", "none").db.fabrics[f].quantity_in_stock >= 0
              /\ record_damage(DB, f, q, "staff").db.fabrics[f].quantity_in_stock >= 0
              /\ record_stock_in(DB, f, q, "staff").db.fabrics[f].quantity_in_stock >= 0
        /\ \A o \in DOMAIN orders, q \in AskedQuantities :
              allocate_material(DB, o, f, q, "staff", "none").db.fabrics[f].quantity_in_stock >= 0

\* the stock of a fabric was used up and a further stock-out was refused
C17_StockExhausted ==
    /\ last.op = "record_stock_out"
    /\ last.raised
    /\ \E f \in DOMAIN fabrics :
          /\ fabrics[f].quantity_in_stock = 0
          /\ Len(stock_transactions[f]) > 0

\* C18: record_stock_out and record_damage with a quantity over the stock fail
\* with a validation error and change nothing; the same call fails the same
\* way again, and a following call with a quantity within the stock succeeds
\* with the result it would have had without the failed calls.
C18_OverStockFailsAndChangesNothing ==
    /\ [](\A f \in DOMAIN fabrics, q \in StockQuantities, q2 \in StockQuantities :
            fabrics[f].quantity_in_stock < q =>
               LET out == record_stock_out(DB, f, q, 0, "staff", "none")
                   damage == record_damage(DB, f, q, "staff")
               IN  /\ out.raised /\ out.exc = "ValidationError" /\ out.db = DB
                   /\ damage.raised /\ damage.exc = "ValidationError" /\ damage.db = DB
                   /\ record_stock_out(out.db, f, q, 0, "staff", "none") = out
                   /\ record_damage(damage.db, f, q, "staff") = damage
                   /\ q2 <= fabrics[f].quantity_in_stock =>
                        LET out2 == record_stock_out(out.db, f, q2, 0, "staff", "none")
                            damage2 == record_damage(damage.db, f, q2, "staff")
                        IN  /\ ~out2.raised
                            /\ out2.db.fabrics[f].quantity_in_stock
                                  = fabrics[f].quantity_in_stock - q2
                            /\ Len(out2.db.stock_transactions[f])
                                  = Len(stock_transactions[f]) + 1
                            /\ ~damage2.raised
                            /\ damage2.db.fabrics[f].quantity_in_stock
                                  = fabrics[f].quantity_in_stock - q2
                            /\ Len(damage2.db.stock_transactions[f])
                                  = Len(stock_transactions[f]) + 1)
    /\ [][(last'.op \in {"record_stock_out", "record_damage"} /\ last'.raised) =>
             /\ last'.exc = "ValidationError"
             /\ UNCHANGED <<fabrics, stock_transactions, low_stock_alerts, allocations>>]_vars

\* damage over the stock was refused for a fabric that has stock and a ledger
C18_DamageRefused ==
    /\ last.op = "record_damage"
    /\ last.raised
    /\ \E f \in DOMAIN fabrics :
          /\ fabrics[f].quantity_in_stock > 0
          /\ Len(stock_transactions[f]) > 0

\* the unresolved alerts of fabric f in the tables db
unresolved_alerts(db, f) == { a \in alerts_of(db, f) : ~db.low_stock_alerts[a].is_resolved }

\* the results of the three ways to take q of fabric f out of the stock
Decreases(f, q) ==
    { record_stock_out(DB, f, q, 0, "staff", "none"),
      record_damage(DB, f, q, "staff") }
    \cup { allocate_material(DB, o, f, q, "staff", "none") : o \in DOMAIN orders }

\* C19: a fabric has at most one LowStockAlert record in every reachable
\* state, and no alert record is removed or given to another fabric. A
\* decrease that leaves the stock at or below the threshold creates the
\* alert when the fabric has none, changes no alert when the fabric's alert
\* is unresolved, and reactivates the fabric's own record (is_resolved false,
\* resolved_at cleared) when it was resolved.
C19_OneAlertPerFabric ==
    /\ [](\A f \in DOMAIN fabrics :
            /\ Cardinality(alerts_of(DB, f)) <= 1
            /\ \A q \in StockQuantities : \A r \in Decreases(f, q) :
                  (~r.raised /\ r.db.fabrics[f].quantity_in_stock
                                   <= fabrics[f].reorder_threshold) =>
                     /\ Cardinality(alerts_of(r.db, f)) = 1
                     /\ Cardinality(unresolved_alerts(r.db, f)) = 1
                     /\ alerts_of(DB, f) = {} =>
                           /\ DOMAIN r.db.low_stock_alerts \ DOMAIN low_stock_alerts
                                 = alerts_of(r.db, f)
                           /\ \A a \in DOMAIN low_stock_alerts :
                                 r.db.low_stock_alerts[a] = low_stock_alerts[a]
                     /\ unresolved_alerts(DB, f) # {} =>
                           r.db.low_stock_alerts = low_stock_alerts
                     /\ \A a \in alerts_of(DB, f) :
                           low_stock_alerts[a].is_resolved =>
                              r.db.low_stock_alerts =
                                 [low_stock_alerts EXCEPT ![a].is_resolved = FALSE,
                                                          ![a].resolved_at = "None"])
    /\ [][\A a \in DOMAIN low_stock_alerts :
             /\ a \in DOMAIN low_stock_alerts'
             /\ low_stock_alerts'[a].fabric = low_stock_alerts[a].fabric]_vars

\* the alert of a fabric was resolved, the stock is still at or below the
\* threshold and there is stock a further decrease can take
C19_ResolvedAlertBeforeDecrease ==
    /\ last.op = "resolve_alert"
    /\ \E a \in DOMAIN low_stock_alerts :
          LET f == low_stock_alerts[a].fabric
          IN  /\ low_stock_alerts[a].is_resolved
              /\ low_stock_alerts[a].resolved_at = "now"
              /\ fabrics[f].quantity_in_stock >= 1
              /\ fabrics[f].quantity_in_stock <= fabrics[f].reorder_threshold
              /\ Len(stock_transactions[f]) > 0

\* C20: a successful decrease of a fabric's stock (record_stock_out,
\* record_damage, allocate_material) that leaves the stock at or below the
\* reorder threshold leaves, in the state it commits, an unresolved alert of
\* that fabric; one that leaves the stock above the threshold creates and
\* reactivates no alert. With stock 50 and threshold 10, allocating 45 to an
\* order succeeds, leaves stock 5 and exactly one unresolved alert.
C20_DecreaseToThresholdRaisesAlert ==
    /\ [](\A f \in DOMAIN fabrics :
            /\ \A q \in StockQuantities : \A r \in Decreases(f, q) :
                  ~r.raised =>
                     IF r.db.fabrics[f].quantity_in_stock <= fabrics[f].reorder_threshold
                     THEN unresolved_alerts(r.db, f) # {}
                     ELSE r.db.low_stock_alerts = low_stock_alerts
            /\ (fabrics[f].quantity_in_stock = 50 /\ fabrics[f].reorder_threshold = 10) =>
                  \A o \in DOMAIN orders :
                     ~allocation_exists(DB, o, f) =>
                        LET r == allocate_material(DB, o, f, 45, "staff", "none")
                        IN  /\ ~r.raised
                            /\ r.db.fabrics[f].quantity_in_stock = 5
                            /\ Cardinality(unresolved_alerts(r.db, f)) = 1)
    /\ [][\A f \in DOMAIN fabrics :
             (/\ last'.op \in {"record_stock_out", "record_damage", "allocate_material"}
              /\ fabrics'[f].quantity_in_stock < fabrics[f].quantity_in_stock) =>
                 IF fabrics'[f].quantity_in_stock <= fabrics'[f].reorder_threshold
                 THEN \E a \in DOMAIN low_stock_alerts' :
                         /\ low_stock_alerts'[a].fabric = f
                         /\ ~low_stock_alerts'[a].is_resolved
                 ELSE low_stock_alerts' = low_stock_alerts]_vars

\* 45 of a fabric with stock 50 and threshold 10 were allocated to an order
C20_AllocatedDownToFive ==
    /\ last.op = "allocate_material"
    /\ ~last.raised
    /\ \E a \in DOMAIN allocations :
          LET f == allocations[a].fabric
          IN  /\ allocations[a].order = last.order
              /\ allocations[a].quantity_meters = 45
              /\ fabrics[f].quantity_in_stock = 5
              /\ fabrics[f].reorder_threshold = 10
              /\ Cardinality(unresolved_alerts(DB, f)) = 1

(***************************************************************************)
(* The payments: cash, gateway, webhook deliveries, refunds.               *)
(***************************************************************************)
ProcessWebhook(event_data) ==
    /\ Rows < MaxRows
    /\ Commit("process_webhook", 0, process_webhook(DB, event_data))

\* the events the gateway delivers, some of them more than once: a capture
\* of a payment for gateway order 1, the completion of refund 1
WebhookEventData ==
    { [ event_id |-> id, event |-> event, order_id |-> 1, payment_id |-> pay,
        refund_id |-> <<"rfnd", 1>> ] :
        id \in {"evt_1", "evt_2"},
        event \in {"payment.captured", "refund.processed"},
        pay \in {"pay_1", "pay_2"} }

NextPayments ==
    \/ CreateOrderWithInvoice
    \/ PaymentCalls
    \/ \E event_data \in WebhookEventData : ProcessWebhook(event_data)

SpecPayments == Init /\ [][NextPayments]_vars

\* the WebhookEvent rows of an event id
events_of(db, event_id) ==
    { w \in DOMAIN db.webhook_events : db.webhook_events[w].event_id = event_id }

\* C21: every event id has at most one WebhookEvent row. A delivery whose
\* event id is in the ledger returns False and changes no table; a delivery
\* that is processed returns True and leaves the ledger row of its event id
\* in the state that holds its effects, and one that raises leaves nothing.
\* No step changes a payment, gateway order, refund or invoice through
\* process_webhook without adding the ledger row.
C21_WebhookEffectsAtMostOnce ==
    /\ [](\A event_data \in WebhookEventData :
            LET r == process_webhook(DB, event_data)
            IN  /\ Cardinality(events_of(DB, event_data.event_id)) <= 1
                /\ events_of(DB, event_data.event_id) # {} =>
                      /\ ~r.raised
                      /\ r.msg = <<"False">>
                      /\ r.db = DB
                /\ events_of(DB, event_data.event_id) = {} =>
                      IF r.raised THEN r.db = DB
                      ELSE /\ r.msg = <<"True">>
                           /\ Cardinality(events_of(r.db, event_data.event_id)) = 1
                           /\ \A w \in events_of(r.db, event_data.event_id) :
                                 r.db.webhook_events[w].status = "success")
    /\ [][last'.op = "process_webhook" =>
             /\ last'.msg = <<"False">> =>
                   UNCHANGED <<payments, razorpay_orders, refunds, invoices, webhook_events>>
             /\ ~UNCHANGED <<payments, razorpay_orders, refunds, invoices>> =>
                   Cardinality(DOMAIN webhook_events') = Cardinality(DOMAIN webhook_events) + 1
         ]_vars

\* the completion of a gateway refund was delivered a second time
C21_DuplicateDeliveryIgnored ==
    /\ last.op = "process_webhook"
    /\ last.msg = <<"False">>
    /\ \E w \in DOMAIN webhook_events : webhook_events[w].event_type = "refund.processed"
    /\ \E f \in DOMAIN refunds :
          /\ refunds[f].razorpay_refund_id # << >>
          /\ refunds[f].refund_status = "COMPLETED"

(***************************************************************************)
(* EmailService.send_email, step by step (notifications/email_service.py). *)
(* A send in progress is a record of what the call holds: the limit it was *)
(* given, whether the template rendered, the number of the next attempt,   *)
(* what the attempts met so far, what it returned.                         *)
(***************************************************************************)
\* everything but the requests in progress
tables == << statuses, transitions, notification_types, orders, order_work_types,
             bills, invoices, razorpay_orders, payments, refunds, history,
             assignments, allocations, fabrics, stock_transactions, low_stock_alerts,
             webhook_events, audit, notifications, last >>

\* the call has its arguments and is about to render the template
send_email_called(max_retries) ==
    [ pc |-> "render", max_retries |-> max_retries, html_content |-> FALSE,
      attempt |-> 1, outcomes |-> << >>, result |-> "None" ]

\* render_to_string inside try/except: a template that fails leaves the plain text
render_template(req, template_ok) ==
    [req EXCEPT !.pc = IF req.max_retries < 1 THEN "done" ELSE "send",
                !.result = IF req.max_retries < 1 THEN "False" ELSE "None",
                !.html_content = template_ok]

\* a faulty variant of send_attempt: a failed attempt is retried without counting
send_attempt_without_limit(req, ok) ==
    IF ok THEN [req EXCEPT !.pc = "done", !.result = "True",
                           !.outcomes = Append(@, ok)]
    ELSE [req EXCEPT !.outcomes = IF Len(@) < req.max_retries + 1 THEN Append(@, ok) ELSE @]

\* one pass of the loop "for attempt in range(1, max_retries + 1)": the
\* message is sent, or the exception is caught and the last attempt returns False
send_attempt(req, ok) ==
    IF ok THEN [req EXCEPT !.pc = "done", !.result = "True",
                           !.outcomes = Append(@, ok)]
    ELSE IF req.attempt = req.max_retries
    THEN [req EXCEPT !.pc = "done", !.result = "False", !.outcomes = Append(@, ok)]
    ELSE [req EXCEPT !.attempt = @ + 1, !.outcomes = Append(@, ok)]

\* the sends that run side by side, the limits they are given
Senders == {1, 2}
RetryLimits == 0..MAX_RETRIES

StartSendEmail(id, max_retries) ==
    /\ id \notin DOMAIN requests
    /\ requests' = (id :> send_email_called(max_retries)) @@ requests
    /\ UNCHANGED tables

RenderTemplate(id, template_ok) ==
    /\ id \in DOMAIN requests
    /\ requests[id].pc = "render"
    /\ requests' = [requests EXCEPT ![id] = render_template(@, template_ok)]
    /\ UNCHANGED tables

SendAttempt(id, ok) ==
    /\ id \in DOMAIN requests
    /\ requests[id].pc = "send"
    /\ requests' = [requests EXCEPT ![id] = send_attempt(@, ok)]
    /\ UNCHANGED tables

\* the steps of the sends in progress
SendSteps ==
    \/ \E id \in Senders, template_ok \in BOOLEAN : RenderTemplate(id, template_ok)
    \/ \E id \in Senders, ok \in BOOLEAN : SendAttempt(id, ok)

NextMail ==
    \/ \E id \in Senders, max_retries \in RetryLimits : StartSendEmail(id, max_retries)
    \/ SendSteps

\* a call that has started goes on: nothing in it waits for another call
SpecMail == Init /\ [][NextMail]_vars /\ WF_vars(SendSteps)

\* C22: send_email makes at most max_retries attempts, stops at the first
\* attempt that succeeds and returns True, returns False when every attempt
\* failed, returns in every case (it raises nothing and does not go on for
\* ever), and makes its attempts also when the template did not render; with
\* the default limit it returns what the summary send_email gives for what
\* the attempts met.
C22_SendEmailTerminates ==
    /\ [](\A id \in DOMAIN requests :
            LET req == requests[id]
                n == Len(req.outcomes)
            IN  /\ n <= req.max_retries
                /\ req.pc \in {"render", "send", "done"}
                /\ \A i \in 1..(n - 1) : ~req.outcomes[i]
                /\ req.pc = "send" => (n = req.attempt - 1 /\ \A i \in 1..n : ~req.outcomes[i])
                /\ req.pc = "done" =>
                      /\ req.result \in {"True", "False"}
                      /\ req.result = "True" <=> (n > 0 /\ req.outcomes[n])
                      /\ req.result = "False" => n = req.max_retries
                      /\ (req.max_retries = MAX_RETRIES /\ n = MAX_RETRIES) =>
                            (req.result = "True" <=> send_email(req.outcomes)))
    /\ \A id \in Senders :
          [](id \in DOMAIN requests =>
                <>(id \in DOMAIN requests /\ requests[id].pc = "done"))

\* a send whose template did not render failed twice and then succeeded
C22_ThirdAttemptSucceeded ==
    \E id \in DOMAIN requests :
        /\ requests[id].pc = "done"
        /\ ~requests[id].html_content
        /\ requests[id].outcomes = <<FALSE, FALSE, TRUE>>
        /\ requests[id].result = "True"

(***************************************************************************)
(* Properties of the payments.                                             *)
(***************************************************************************)
\* the COMPLETED payments of the invoice of order o in the tables db
completed_payments(db, o) ==
    { p \in DOMAIN db.payments :
        db.payments[p].invoice = o /\ db.payments[p].status = "COMPLETED" }

\* the amounts a cashier may hand to record_cash_payment
CashAmounts == Amounts \cup {0}

\* C23: record_cash_payment on an invoice records one payment with status
\* COMPLETED and the given amount; afterwards the invoice is PAID when the
\* sum of its COMPLETED payments is at least the bill's total (so after one
\* payment of exactly the total), PARTIALLY_PAID when the sum is positive
\* and below the total, and has the status it had otherwise.
C23_CashPaymentSetsInvoiceStatus ==
    \A o \in DOMAIN invoices, amount \in CashAmounts :
        LET r == record_cash_payment(DB, o, amount, "staff")
            p == NextId(payments)
            paid == SumAmounts(r.db.payments, completed_payments(r.db, o))
        IN  /\ ~r.raised
            /\ DOMAIN r.db.payments = DOMAIN payments \cup {p}
            /\ p \notin DOMAIN payments
            /\ \A x \in DOMAIN payments : r.db.payments[x] = payments[x]
            /\ r.db.payments[p].invoice = o
            /\ r.db.payments[p].status = "COMPLETED"
            /\ r.db.payments[p].amount_paid = amount
            /\ paid = SumAmounts(payments, completed_payments(DB, o)) + amount
            /\ r.db.invoices[o].status =
                  (IF paid >= bills[o].total_amount THEN "PAID"
                   ELSE IF paid > 0 THEN "PARTIALLY_PAID"
                   ELSE invoices[o].status)
            /\ \A x \in DOMAIN invoices \ {o} : r.db.invoices[x] = invoices[x]

\* one cash payment of exactly the total made the invoice PAID
C23_PaidByOneExactPayment ==
    /\ last.op = "record_cash_payment"
    /\ ~last.raised
    /\ invoices[last.order].status = "PAID"
    /\ \E p \in DOMAIN payments :
          /\ completed_payments(DB, last.order) = {p}
          /\ payments[p].payment_mode = "cash"
          /\ payments[p].amount_paid = bills[last.order].total_amount

\* C28: in every reachable state an invoice is PAID exactly when the sum of
\* its COMPLETED payments is at least the total of its bill.
C28_PaidIffCovered ==
    \A o \in DOMAIN invoices :
        invoices[o].status = "PAID"
           <=> SumAmounts(payments, completed_payments(DB, o)) >= bills[o].total_amount

\* C29: a successful record_stock_out, record_damage or allocate_material
\* never raises the stock of a fabric, whatever quantity it accepted.
C29_DeductionNeverRaisesStock ==
    [][(/\ last'.op \in {"record_stock_out", "record_damage", "allocate_material"}
        /\ ~last'.raised) =>
          \A f \in DOMAIN fabrics :
              fabrics'[f].quantity_in_stock <= fabrics[f].quantity_in_stock]_vars

(***************************************************************************)
(* One order on its way through the lifecycle.                             *)
(***************************************************************************)
TransitionInLifecycle(o, new_status, changed_by) ==
    /\ Len(history[o]) < MaxTransitions
    /\ Commit("transition_status", o,
              transition_status(DB, o, new_status, changed_by, "", "none"))

\* the staff of the workshop and a tailor take one order as far as the graph allows
NextLifecycle ==
    \/ orders = << >> /\ CreateOrderWithInvoice
    \/ \E o \in DOMAIN orders : RecordCashPaymentView(o, "admin")
    \/ \E o \in DOMAIN orders, s \in StatusNames, u \in {"staff", "tailor"} :
          TransitionInLifecycle(o, s, u)

SpecLifecycle == Init /\ [][NextLifecycle]_vars

(***************************************************************************)
(* Properties of the transition graph.                                     *)
(***************************************************************************)
\* the values an allowed_roles annotation takes in the seed and in the tests
Annotations == {"", "admin", "staff,admin", "tailor,staff,admin", "delivery,staff,admin"}

\* the transition table with the annotation of edge t set to a
Reannotated(t, a) == (transitions \ {t}) \cup {[t EXCEPT !.allowed_roles = a]}

\* the transition table with every annotation set to a
AllAnnotated(a) == { [t EXCEPT !.allowed_roles = a] : t \in transitions }

\* C27: the allowed_roles annotation of an edge has no influence on
\* transition_status: with any annotation of any edge, and with any one
\* annotation on all edges, every call is accepted or rejected as it is with
\* the stored table, and with the same error; under the seeded table a
\* tailor may take stitching -> trial_scheduled, an edge annotated
\* "staff,admin".
C27_AnnotationHasNoInfluence ==
    /\ \A o \in DOMAIN orders, new_status \in StatusNames, u \in Users, a \in Annotations :
          LET stored == check_transition(DB, o, new_status, u)
          IN  /\ check_transition_in(AllAnnotated(a), DB, o, new_status, u) = stored
              /\ \A t \in transitions :
                    check_transition_in(Reannotated(t, a), DB, o, new_status, u) = stored
    /\ \A o \in DOMAIN orders :
          (transitions = SeedTransitions /\ orders[o].current_status = "stitching") =>
             ~check_transition(DB, o, "trial_scheduled", "tailor").raised

\* a tailor took an order from stitching to trial_scheduled
C27_TailorScheduledTrial ==
    /\ last.op = "transition_status"
    /\ ~last.raised
    /\ Edge("stitching", "trial_scheduled", "staff,admin") \in transitions
    /\ LastRow(last.order).from_status = "stitching"
    /\ LastRow(last.order).to_status = "trial_scheduled"
    /\ LastRow(last.order).changed_by = "tailor"

\* the statuses an order has been in, in order: "booked", then the to_status of every row
StatusesSeen(o) ==
    <<"booked">> \o [i \in 1..Len(history[o]) |-> history[o][i].to_status]

\* C30: under the seeded graph every edge, and so every successful
\* transition, leads to a status with a strictly greater sequence_order; an
\* order is never twice in the same status, has at most seven transitions,
\* and in 'closed' every transition is refused for every user; the
\* is_final_state flag is not consulted: an order in 'delivered', a status
\* flagged final, is still taken to 'closed'.
C30_SeededLifecycleOnlyAdvances ==
    /\ [](transitions = SeedTransitions =>
            /\ \A t \in transitions :
                  statuses[t.to_status].sequence_order > statuses[t.from_status].sequence_order
            /\ \A o \in DOMAIN orders :
                  /\ Len(history[o]) <= 7
                  /\ Len(history[o]) <= statuses[orders[o].current_status].sequence_order - 1
                  /\ \A i, j \in 1..Len(StatusesSeen(o)) :
                        i < j => statuses[StatusesSeen(o)[i]].sequence_order
                                    < statuses[StatusesSeen(o)[j]].sequence_order
                  /\ orders[o].current_status = "closed" =>
                        \A s \in StatusNames, u \in Users :
                            check_transition(DB, o, s, u).raised
                  /\ orders[o].current_status = "delivered" =>
                        /\ statuses["delivered"].is_final_state
                        /\ ~transition_status(DB, o, "closed", "staff", "", "none").raised)
    /\ [][transitions = SeedTransitions =>
             \A o \in DOMAIN orders :
                 orders'[o].current_status # orders[o].current_status =>
                    statuses[orders'[o].current_status].sequence_order
                       > statuses[orders[o].current_status].sequence_order]_vars

\* an order went through all eight statuses and is closed
C30_ClosedAfterSevenTransitions ==
    \E o \in DOMAIN orders :
        /\ transitions = SeedTransitions
        /\ orders[o].current_status = "closed"
        /\ Len(history[o]) = 7
        /\ history[o][7].from_status = "delivered"

(***************************************************************************)
(* Requests that create orders at the same time: each one reads its number *)
(* first; its INSERT waits for the unique index, so that the INSERT and    *)
(* the rest of the transaction see what the others committed.              *)
(***************************************************************************)
OrderRequests == {1, 2, 3}

\* the request has run Order.generate_order_number and holds its result
order_number_read(db) ==
    [ pc |-> "numbered", order_number |-> generate_order_number(db),
      raised |-> FALSE, exc |-> "" ]

ReadOrderNumber(id) ==
    /\ id \notin DOMAIN requests
    /\ requests' = (id :> order_number_read(DB)) @@ requests
    /\ UNCHANGED tables

InsertOrder(id, fault) ==
    /\ id \in DOMAIN requests
    /\ requests[id].pc = "numbered"
    /\ LET r == create_order_numbered(DB, requests[id].order_number, {}, FALSE,
                                      "admin", fault)
       IN  /\ Store("create_order", NextId(orders), r)
           /\ requests' = [requests EXCEPT ![id] =
                              [@ EXCEPT !.pc = "done", !.raised = r.raised, !.exc = r.exc]]
    /\ UNCHANGED <<statuses, transitions>>

NextConcurrentOrders ==
    \/ \E id \in OrderRequests : ReadOrderNumber(id)
    \/ \E id \in OrderRequests, fault \in Faults : InsertOrder(id, fault)
    \/ CreateOrderWithInvoice

SpecConcurrentOrders == Init /\ [][NextConcurrentOrders]_vars

\* no two rows of the table of orders have the same order_number
numbers_unique(table) ==
    \A x, y \in DOMAIN table : x # y => table[x].order_number # table[y].order_number

TransitionRequests == {1, 2}

\* the transitions the requests in flight make between them
MaxConcurrentTransitions == 3

\* OrderTransitionView.post after get_object_or_404: the request holds the
\* order as it was stored when it was read
order_loaded(db, o) == [pc |-> "loaded", order |-> o, row |-> db.orders[o]]

\* OrderService.transition_status on the object the view read: old_status is
\* the object's, the queries see the stored tables, and
\* save(update_fields=['current_status', 'updated_at']) writes the one column
transition_status_of_loaded(db, o, row, new_status, changed_by, reason, fault) ==
    LET r == transition_status([db EXCEPT !.orders[o] = row], o, new_status,
                               changed_by, reason, fault)
    IN  IF r.raised
        THEN [r EXCEPT !.db = db]
        ELSE [r EXCEPT !.db.orders[o] =
                          [db.orders[o] EXCEPT !.current_status = new_status]]

LoadOrder(id, o) ==
    /\ IF id \in DOMAIN requests THEN requests[id].pc = "done" ELSE TRUE
    /\ ~orders[o].is_deleted
    /\ requests' = (id :> order_loaded(DB, o)) @@ requests
    /\ UNCHANGED tables

TransitionLoaded(id, new_status, changed_by) ==
    /\ id \in DOMAIN requests
    /\ requests[id].pc = "loaded"
    /\ Len(history[requests[id].order]) < MaxConcurrentTransitions
    /\ Store("transition_status", requests[id].order,
             transition_status_of_loaded(DB, requests[id].order, requests[id].row,
                                         new_status, changed_by, "", "none"))
    /\ requests' = [requests EXCEPT ![id].pc = "done"]
    /\ UNCHANGED <<statuses, transitions>>

NextConcurrentTransitions ==
    \/ orders = << >> /\ CreateOrderWithInvoice
    \/ \E id \in TransitionRequests, o \in DOMAIN orders : LoadOrder(id, o)
    \/ \E id \in TransitionRequests, s \in StatusNames, u \in {"staff", "tailor"} :
          TransitionLoaded(id, s, u)

SpecConcurrentTransitions == Init /\ [][NextConcurrentTransitions]_vars

\* C25: the history rows of every order, in the order of their commits, form
\* a chain: the first row starts at 'booked', each later row starts where the
\* row before it ended, the last row ends at the stored current_status, and
\* every row is an edge of the transition graph.
C25_HistoryIsChain ==
    \A o \in DOMAIN orders :
        LET h == history[o]
        IN  /\ Len(h) > 0 => /\ h[1].from_status = "booked"
                             /\ h[Len(h)].to_status = orders[o].current_status
            /\ \A i \in 2..Len(h) : h[i].from_status = h[i - 1].to_status
            /\ \A i \in 1..Len(h) : transition_valid(h[i].from_status, h[i].to_status)

(***************************************************************************)
(* Requests that deduct stock of one fabric at the same time: the view     *)
(* reads the fabric, the service then works on the object the view read.   *)
(***************************************************************************)
StockRequests == {1, 2}

DeductionOps == {"record_stock_out", "record_damage", "allocate_material"}

\* StockOutView.post after get_object_or_404, OrderAllocateMaterialView.post
\* after form.is_valid(), a caller of record_damage with its Fabric object:
\* the request holds the fabric as it was stored when it was read
fabric_loaded(db, op, o, f, quantity) ==
    [ pc |-> "loaded", op |-> op, order |-> o, fabric |-> f, row |-> db.fabrics[f],
      quantity |-> quantity ]

\* the service call of a request on the fabric object it holds: the stock is
\* the object's, the queries see the stored tables, and
\* fabric.save(update_fields=['quantity_in_stock', 'updated_at']) writes the
\* one column
deduction_of_loaded(db, req) ==
    LET f == req.fabric
        seen == [db EXCEPT !.fabrics[f] = req.row]
        r == CASE req.op = "record_stock_out" ->
                    record_stock_out(seen, f, req.quantity, 0, "staff", "none")
               [] req.op = "record_damage" ->
                    record_damage(seen, f, req.quantity, "staff")
               [] req.op = "allocate_material" ->
                    allocate_material(seen, req.order, f, req.quantity, "staff", "none")
    IN  IF r.raised
        THEN [r EXCEPT !.db = db]
        ELSE [r EXCEPT !.db.fabrics[f] =
                          [db.fabrics[f] EXCEPT !.quantity_in_stock =
                                                   r.db.fabrics[f].quantity_in_stock]]

LoadFabric(id, op, o, f, quantity) ==
    /\ IF id \in DOMAIN requests THEN requests[id].pc = "done" ELSE TRUE
    /\ op = "allocate_material" => ~orders[o].is_deleted /\ fabrics[f].quantity_in_stock > 0
    /\ requests' = (id :> fabric_loaded(DB, op, o, f, quantity)) @@ requests
    /\ UNCHANGED tables

DeductLoaded(id) ==
    /\ id \in DOMAIN requests
    /\ requests[id].pc = "loaded"
    /\ StockRows < MaxStockRows
    /\ Store(requests[id].op, requests[id].order, deduction_of_loaded(DB, requests[id]))
    /\ requests' = [requests EXCEPT ![id].pc = "done"]
    /\ UNCHANGED <<statuses, transitions>>

NextConcurrentStock ==
    \/ orders = << >> /\ CreateOrderWithInvoice
    \/ fabrics = << >> /\ CreateFabric("cotton", 2, 1, 1, "staff")
    \/ \E id \in StockRequests, op \in DeductionOps, o \in DOMAIN orders,
          f \in DOMAIN fabrics, q \in {1, 2} : LoadFabric(id, op, o, f, q)
    \/ \E id \in StockRequests : DeductLoaded(id)

SpecConcurrentStock == Init /\ [][NextConcurrentStock]_vars

\* C26: a deduction of q that commits, also while another request on the same
\* fabric is in flight, lowers the stored stock by q, writes a ledger row whose
\* previous_quantity is the stock stored just before it, and commits only if
\* that stock covers q; so the final stock is the initial stock minus the sum
\* of the committed deductions.
C26_NoDeductionLost ==
    [][\A id \in DOMAIN requests :
          /\ requests[id].pc = "loaded"
          /\ requests'[id].pc = "done"
          /\ ~last'.raised
          => LET f == requests[id].fabric
                 q == requests[id].quantity
                 rows == stock_transactions'[f]
             IN  /\ fabrics'[f].quantity_in_stock = fabrics[f].quantity_in_stock - q
                 /\ rows[Len(rows)].previous_quantity = fabrics[f].quantity_in_stock
                 /\ fabrics[f].quantity_in_stock >= q]_vars

====
